---- MODULE Spec2Model ----
(***************************************************************************)
(* rlox: a single-pass bytecode compiler and a stack VM for Lox.           *)
(*                                                                         *)
(* The module has three layers:                                            *)
(*   1. the chunk builder (src/src/chunk.rs) and the compiler              *)
(*      (src/src/compile.rs), as operators over a parser record;           *)
(*   2. the virtual machine (src/src/vm.rs), one action per opcode;        *)
(*   3. run_program (src/src/lib.rs): compile a token stream, build the VM  *)
(*      and interpret it.                                                  *)
(*                                                                         *)
(* Representation choices.                                                 *)
(*   - A lexeme (&[char]) is a string.                                     *)
(*   - A Symbol is modelled by its text: the intern table hands out one    *)
(*     Rc per text, so identity and content agree.                         *)
(*   - f64 numbers are modelled by integers; the programs explored only    *)
(*     use exact integer arithmetic.                                       *)
(*   - Rc<FunctionInner>, Rc<RefCell<ObjUpvalueInner>>, Rc<RefCell<Clazz>>, *)
(*     Rc<RefCell<Instance>> are indices into heaps (sequences).           *)
(*   - A Rust panic is the sticky field "panic" of the record it hits.     *)
(***************************************************************************)
EXTENDS Integers, Sequences, FiniteSets, TLC

(***************************************************************************)
(* Bounds of the exploration.                                              *)
(***************************************************************************)
MaxIter == 2

MaxArg == 2

(***************************************************************************)
(* Values (src/src/value.rs).  Every value has the same four fields so     *)
(* that any two values can be compared:                                    *)
(*   t  the variant, n a number (the double, the bool as 0/1, a heap id),  *)
(*   s  the text of a string, up the upvalue cells of a closure.           *)
(***************************************************************************)
MkVal(t, n, s, up) == [t |-> t, n |-> n, s |-> s, up |-> up]

NilV == MkVal("Nil", 0, "", <<>>)

BoolV(b) == MkVal("Bool", IF b THEN 1 ELSE 0, "", <<>>)

DoubleV(n) == MkVal("Double", n, "", <<>>)

StringV(s) == MkVal("String", 0, s, <<>>)

FunctionV(fid) == MkVal("Function", fid, "", <<>>)

NativeV(id) == MkVal("NativeFunction", id, "", <<>>)

ClosureV(fid, up) == MkVal("Closure", fid, "", up)

ClassV(cid) == MkVal("Class", cid, "", <<>>)

InstanceV(iid) == MkVal("Instance", iid, "", <<>>)

BoundMethodV(bid) == MkVal("BoundMethod", bid, "", <<>>)

is_falsy(v) == v.t = "Nil" \/ (v.t = "Bool" /\ v.n = 0)

(***************************************************************************)
(* Opcodes (src/src/opcodes.rs): #[repr(u8)], so the byte of an opcode is  *)
(* its position in the enum, counted from 0.                               *)
(***************************************************************************)
OpCodes ==
    << "Constant", "Nil", "True", "False", "Negate", "Add", "Subtract",
       "Multiply", "Divide", "Not", "Equal", "Greater", "Less", "Return",
       "Print", "Pop", "DefineGlobal", "GetGlobal", "SetGlobal", "GetLocal",
       "SetLocal", "GetUpvalue", "SetUpvalue", "Jump", "JumpIfFalse", "Loop",
       "Call", "Closure", "CloseUpvalue", "Class", "GetProperty",
       "SetProperty", "Method", "Invoke", "Inherit", "GetSuper",
       "SuperInvoke" >>

OpByte(name) == (CHOOSE i \in 1..Len(OpCodes) : OpCodes[i] = name) - 1

OpName(byte) == IF byte + 1 \in 1..Len(OpCodes) THEN OpCodes[byte + 1] ELSE "Invalid"

U8Max == 255

U16Max == 65535

IndexesPerOpCode(opcode) ==
    CASE opcode \in {"Constant", "DefineGlobal", "GetGlobal", "SetGlobal",
                     "GetLocal", "SetLocal", "GetUpvalue", "SetUpvalue",
                     "Call", "Class", "GetProperty", "SetProperty", "Method",
                     "GetSuper"} -> 1
      [] opcode \in {"Jump", "JumpIfFalse", "Loop", "Invoke", "SuperInvoke"} -> 2
      [] opcode = "Closure" -> U8Max
      [] OTHER -> 0

(***************************************************************************)
(* The chunk builder (src/src/chunk.rs, ChunkBuilderInner and Patch).      *)
(* code holds bytes, lines one source line per byte, constants the pool.   *)
(***************************************************************************)
ChunkBuilderNew ==
    [code |-> <<>>, lines |-> <<>>, constants |-> <<>>,
     required_indexes |-> 0, patch_count |-> 0, panic |-> ""]

ChunkWriteIndex(b, index) ==
    [b EXCEPT !.code = Append(b.code, index),
              !.lines = Append(b.lines, b.lines[Len(b.lines)])]

\* write_opcode as it would be if it took an opcode at any time.
write_opcode_unchecked(b, opcode, line) ==
    [b EXCEPT !.required_indexes = IndexesPerOpCode(opcode),
              !.code = Append(b.code, OpByte(opcode)),
              !.lines = Append(b.lines, line)]

write_opcode(b, opcode, line) ==
    IF b.required_indexes = 0 \/ b.required_indexes = U8Max
    THEN [b EXCEPT !.required_indexes = IndexesPerOpCode(opcode),
                   !.code = Append(b.code, OpByte(opcode)),
                   !.lines = Append(b.lines, line)]
    ELSE [b EXCEPT !.panic = "Requiring an index next."]

write_index(b, index) ==
    IF b.required_indexes # 0
    THEN [ChunkWriteIndex(b, index) EXCEPT
             !.required_indexes = IF b.required_indexes # U8Max
                                  THEN b.required_indexes - 1
                                  ELSE b.required_indexes]
    ELSE [b EXCEPT !.panic = "Requiring an opcode next."]

HighByte(position) == (position \div 256) % 256

LowByte(position) == position % 256

write_address(b, position) ==
    IF b.required_indexes >= 2
    THEN [ChunkWriteIndex(ChunkWriteIndex(b, HighByte(position)), LowByte(position))
             EXCEPT !.required_indexes = b.required_indexes - 2]
    ELSE [b EXCEPT !.panic = "Do not require two indexes"]

\* The Patch handed back is its location: the 0-based index of the first
\* of the two reserved bytes.
write_patch(b) ==
    IF b.required_indexes >= 2
    THEN [ChunkWriteIndex(ChunkWriteIndex(b, U8Max), U8Max)
             EXCEPT !.required_indexes = b.required_indexes - 2,
                    !.patch_count = b.patch_count + 1]
    ELSE [b EXCEPT !.panic = "Requiring an opcode next."]

\* b is the builder after write_patch.
PatchLocation(b) == Len(b.code) - 2

patch_apply(b, location, position) ==
    [b EXCEPT !.code[location + 1] = HighByte(position),
              !.code[location + 2] = LowByte(position),
              !.patch_count = b.patch_count - 1]

add_constant(b, value) == [b EXCEPT !.constants = Append(b.constants, value)]

\* build() as it would be without its count of the patches.
BuildPanicPatchesForgotten(b) ==
    IF b.required_indexes = 0 THEN b.panic ELSE "Still requiring an index."

\* build(): the chunk, or a panic when an operand or a patch is missing.
BuildPanic(b) ==
    IF b.required_indexes = 0 /\ b.patch_count = 0 THEN b.panic
    ELSE IF b.required_indexes # 0 THEN "Still requiring an index."
    ELSE "There are patches that still need to be applied."

BuildChunk(b) == [code |-> b.code, lines |-> b.lines, constants |-> b.constants]

(***************************************************************************)
(* Tokens (src/src/tokens.rs).                                             *)
(***************************************************************************)
Token(type, lexeme, line) == [type |-> type, lexeme |-> lexeme, line |-> line]

SUPER == "super"

THIS == "this"

INIT == "init"

(***************************************************************************)
(* Precedence (src/src/compile.rs, enum Precedence): the derived Ord is    *)
(* the order of the variants.                                              *)
(***************************************************************************)
PrecNone == 0

PrecAssignment == 1

PrecOr == 2

PrecAnd == 3

PrecEquality == 4

PrecComparison == 5

PrecTerm == 6

PrecFactor == 7

PrecUnary == 8

PrecCall == 9

PrecPrimary == 10

one_higher(precedence) == precedence + 1

ParseRule(prefix, infix, precedence) ==
    [prefix |-> prefix, infix |-> infix, precedence |-> precedence]

\* ParseRules::new: the rule of each token type; "None" is no rule.
ParseRules(tt) ==
    CASE tt = "LeftParen" -> ParseRule("grouping", "call", PrecCall)
      [] tt = "Dot" -> ParseRule("None", "dot", PrecCall)
      [] tt = "Minus" -> ParseRule("unary", "binary", PrecTerm)
      [] tt = "Plus" -> ParseRule("None", "binary", PrecTerm)
      [] tt \in {"Slash", "Star"} -> ParseRule("None", "binary", PrecFactor)
      [] tt = "Bang" -> ParseRule("unary", "None", PrecNone)
      [] tt \in {"BangEqual", "EqualEqual"} -> ParseRule("None", "binary", PrecEquality)
      [] tt \in {"Greater", "GreaterEqual", "Less", "LessEqual"} ->
             ParseRule("None", "binary", PrecComparison)
      [] tt = "Identifier" -> ParseRule("variable", "None", PrecNone)
      [] tt = "String" -> ParseRule("string", "None", PrecNone)
      [] tt = "Number" -> ParseRule("number", "None", PrecNone)
      [] tt = "And" -> ParseRule("None", "and", PrecAnd)
      [] tt \in {"False", "Nil", "True"} -> ParseRule("literal", "None", PrecNone)
      [] tt = "Or" -> ParseRule("None", "or", PrecOr)
      [] tt = "Super" -> ParseRule("None", "None", PrecNone)
      [] tt = "This" -> ParseRule("this", "None", PrecNone)
      [] OTHER -> ParseRule("None", "None", PrecNone)

(***************************************************************************)
(* Compiler, Local, Upvalue, ClassCompiler (src/src/compile.rs).           *)
(***************************************************************************)
Local(name, depth) == [name |-> name, depth |-> depth, is_captured |-> FALSE]

Upvalue(index, is_local) == [index |-> index, is_local |-> is_local]

FunctionBuilderNew(kind) ==
    [has_name |-> FALSE, name |-> "", arity |-> 0, kind |-> kind,
     builder |-> ChunkBuilderNew, upvalue_count |-> 0]

CompilerNew(kind) ==
    [function_builder |-> FunctionBuilderNew(kind),
     locals |-> << Local(IF kind # "Function"
                         THEN Token("EOF", THIS, 0)
                         ELSE Token("EOF", "", 0), 0) >>,
     upvalues |-> <<>>,
     scope_depth |-> 0]

\* Compiler::resolve as it would be if it searched the locals from the front:
\* the first local with that lexeme.
resolve_first_declared(c, name) ==
    LET hits == {i \in 1..Len(c.locals) : c.locals[i].name.lexeme = name.lexeme}
    IN IF hits = {} THEN [arg |-> -1, uninitialized |-> FALSE]
       ELSE LET i == CHOOSE j \in hits : \A k \in hits : j <= k
            IN [arg |-> i - 1, uninitialized |-> c.locals[i].depth = -1]

\* Compiler::resolve: the last local with that lexeme, and whether it is
\* still uninitialized (depth -1); (-1, false) when there is none.
resolve(c, name) ==
    LET hits == {i \in 1..Len(c.locals) : c.locals[i].name.lexeme = name.lexeme}
    IN IF hits = {} THEN [arg |-> -1, uninitialized |-> FALSE]
       ELSE LET i == CHOOSE j \in hits : \A k \in hits : k <= j
            IN [arg |-> i - 1, uninitialized |-> c.locals[i].depth = -1]

\* The locals scanned from the rear while they belong to the current scope.
\* The scan stops at the first local of an enclosing scope; it finds the
\* name when a local at or below i has it and no local from there up to i
\* stops the scan.
DeclaredFrom(c, i, name) ==
    \E j \in 1..i :
        /\ c.locals[j].name.lexeme = name.lexeme
        /\ \A k \in j..i :
               c.locals[k].depth = -1 \/ c.locals[k].depth >= c.scope_depth

check_variable_declared_in_current_scope(c, name) ==
    DeclaredFrom(c, Len(c.locals), name)

mark_local_initialized(c) ==
    IF c.scope_depth > 0
    THEN [c EXCEPT !.locals[Len(c.locals)].depth = c.scope_depth]
    ELSE c

\* remove_out_of_scope_locals: pops the locals deeper than the scope depth;
\* captured lists is_captured of each popped local, in popping order.
RemoveLocals(c, captured) ==
    LET Deeper(n) == \A k \in (n + 1)..Len(c.locals) :
                         c.locals[k].depth > c.scope_depth
        Kept(n) == [c |-> [c EXCEPT !.locals = SubSeq(c.locals, 1, n)],
                    is_captured |->
                        captured \o [j \in 1..(Len(c.locals) - n) |->
                                        c.locals[Len(c.locals) - j + 1].is_captured]]
    IN Kept(CHOOSE n \in 0..Len(c.locals) :
                /\ Deeper(n)
                /\ \A m \in 0..(n - 1) : ~Deeper(m))

\* remove_out_of_scope_locals as it would be if it listed the locals in the
\* order of their declarations.
remove_out_of_scope_locals_first_declared_first(c) ==
    LET r == RemoveLocals(c, <<>>)
    IN [r EXCEPT !.is_captured =
            [j \in 1..Len(r.is_captured) |-> r.is_captured[Len(r.is_captured) + 1 - j]]]

remove_out_of_scope_locals(c) == RemoveLocals(c, <<>>)

\* Compiler::add_upvalue as it would be without inc_upvalue_count: the
\* upvalue is listed, and the function builder does not count it.
CompilerAddUpvalueUncounted(c, upvalue) ==
    LET hits == {i \in 1..Len(c.upvalues) : c.upvalues[i] = upvalue}
    IN IF hits # {}
       THEN [c |-> c, ret |-> (CHOOSE i \in hits : \A k \in hits : i <= k) - 1]
       ELSE IF Len(c.upvalues) = U8Max THEN [c |-> c, ret |-> -1]
       ELSE [c |-> [c EXCEPT !.upvalues = Append(c.upvalues, upvalue)],
             ret |-> Len(c.upvalues)]

\* Compiler::add_upvalue: the index of the (deduplicated) upvalue, -1 for
\* None (the list is full).
CompilerAddUpvalue(c, upvalue) ==
    LET hits == {i \in 1..Len(c.upvalues) : c.upvalues[i] = upvalue}
    IN IF hits # {}
       THEN [c |-> c, ret |-> (CHOOSE i \in hits : \A k \in hits : i <= k) - 1]
       ELSE IF Len(c.upvalues) = U8Max THEN [c |-> c, ret |-> -1]
       ELSE [c |-> [c EXCEPT !.upvalues = Append(c.upvalues, upvalue),
                             !.function_builder.upvalue_count =
                                 c.function_builder.upvalue_count + 1],
             ret |-> Len(c.upvalues)]

(***************************************************************************)
(* Parser (src/src/compile.rs).  A parser record p holds the fields of     *)
(* struct Parser; source/pos are the token iterator, functions the heap of *)
(* built functions (Rc<FunctionInner>), diagnostics what error_at printed, *)
(* ret the value returned by the last method that returns one, panic the   *)
(* message of a Rust panic that ended the compilation, overflow_checks     *)
(* whether the build panics on integer overflow (it wraps otherwise),      *)
(* stalled a history field (see Iterated).  A method                       *)
(* is an operator from the record before the call to the record after it.  *)
(* A call whose result q the method goes on with is written                *)
(*     CHOOSE r \in {Rest(q) : q \in {Call(p)}} : TRUE                      *)
(* which is Rest(Call(p)) with the call made first; the LET operators      *)
(* inside a method are the rest of its body after such a call.             *)
(***************************************************************************)
CurC(p) == p.compilers[Len(p.compilers)]

SetCurC(p, c) == [p EXCEPT !.compilers[Len(p.compilers)] = c]

current_chunk(p) == CurC(p).function_builder.builder

\* Stores the builder back and raises its panic, if any.
SetChunk(p, b) ==
    [p EXCEPT !.compilers[Len(p.compilers)].function_builder.builder = b,
              !.panic = IF p.panic = "" THEN b.panic ELSE p.panic]

RaisePanic(p, message) == [p EXCEPT !.panic = IF p.panic = "" THEN message ELSE p.panic]

ErrorAt(p, token, message, text) ==
    IF ~p.panic_mode
    THEN [p EXCEPT !.panic_mode = TRUE,
                   !.had_error = TRUE,
                   !.diagnostics = Append(p.diagnostics,
                       [line |-> token.line, type |-> token.type,
                        lexeme |-> token.lexeme, message |-> message,
                        text |-> text])]
    ELSE p

error(p, message) == ErrorAt(p, p.previous, message, "")

error_at_current(p, message) == ErrorAt(p, p.current, message, "")

\* advance: Error tokens are reported and skipped; at the end of the
\* iterator nothing changes.
RECURSIVE advance(_)
advance(p) ==
    IF p.pos > Len(p.source) THEN p
    ELSE IF p.source[p.pos].type = "Error"
    THEN advance(ErrorAt([p EXCEPT !.pos = p.pos + 1], p.source[p.pos], "",
                         p.source[p.pos].lexeme))
    ELSE [p EXCEPT !.pos = p.pos + 1, !.previous = p.current,
                   !.current = p.source[p.pos]]

check(p, token_type) == p.current.type = token_type

\* matches: the state after the call; its boolean result is check(p, tt).
matches(p, token_type) == IF check(p, token_type) THEN advance(p) ELSE p

consume(p, token_type, message) ==
    IF check(p, token_type) THEN advance(p) ELSE error_at_current(p, message)

emit_opcode(p, opcode) ==
    SetChunk(p, write_opcode(current_chunk(p), opcode, p.previous.line))

RECURSIVE emit_opcodes(_, _, _)
emit_opcodes(p, opcodes, i) ==
    IF i > Len(opcodes) THEN p
    ELSE emit_opcodes(emit_opcode(p, opcodes[i]), opcodes, i + 1)

emit_index(p, index) == SetChunk(p, write_index(current_chunk(p), index))

emit_address(p, position) == SetChunk(p, write_address(current_chunk(p), position))

\* emit_jump: ret is the Patch (its location).
emit_jump(p, opcode) ==
    LET Patched(q, b) == [SetChunk(q, b) EXCEPT !.ret = PatchLocation(b)]
    IN CHOOSE r \in {Patched(q, write_patch(current_chunk(q))) :
                     q \in {emit_opcode(p, opcode)}} : TRUE

\* emit_loop as it would be if the distance were measured from the operand.
emit_loop_from_operand(p, loop_start) ==
    LET Address(q, offset) == IF offset > U16Max
                              THEN emit_address(error(q, "Loop body too large."), 0)
                              ELSE emit_address(q, offset)
    IN CHOOSE r \in {Address(q, Len(current_chunk(q).code) - loop_start) :
                     q \in {emit_opcode(p, "Loop")}} : TRUE

emit_loop(p, loop_start) ==
    LET Address(q, offset) == IF offset > U16Max
                              THEN emit_address(error(q, "Loop body too large."), 0)
                              ELSE emit_address(q, offset)
    IN CHOOSE r \in {Address(q, Len(current_chunk(q).code) - loop_start + 2) :
                     q \in {emit_opcode(p, "Loop")}} : TRUE

ApplyPatch(p, patch, position) ==
    SetChunk(p, patch_apply(current_chunk(p), patch, position))

\* patch_jump as it would be with the limit one byte lower.
patch_jump_one_short(p, patch) ==
    IF Len(current_chunk(p).code) - patch - 2 >= U16Max
    THEN ApplyPatch(error(p, "Too much code to jump over."), patch, 0)
    ELSE ApplyPatch(p, patch, Len(current_chunk(p).code) - patch - 2)

patch_jump(p, patch) ==
    IF Len(current_chunk(p).code) - patch - 2 > U16Max
    THEN ApplyPatch(error(p, "Too much code to jump over."), patch, 0)
    ELSE ApplyPatch(p, patch, Len(current_chunk(p).code) - patch - 2)

\* make_constant: ret is the u8 index.
\* make_constant as it would be with the limit one constant lower.
make_constant_one_short(p, value) ==
    LET Checked(q, index) ==
            IF index >= U8Max
            THEN [error(q, "Too many constants in one chunk.") EXCEPT !.ret = 0]
            ELSE [q EXCEPT !.ret = index]
    IN CHOOSE r \in {Checked(q, Len(current_chunk(q).constants) - 1) :
                     q \in {SetChunk(p, add_constant(current_chunk(p), value))}} : TRUE

make_constant(p, value) ==
    LET Checked(q, index) ==
            IF index > U8Max
            THEN [error(q, "Too many constants in one chunk.") EXCEPT !.ret = 0]
            ELSE [q EXCEPT !.ret = index]
    IN CHOOSE r \in {Checked(q, Len(current_chunk(q).constants) - 1) :
                     q \in {SetChunk(p, add_constant(current_chunk(p), value))}} : TRUE

emit_constant(p, value) ==
    CHOOSE r \in {emit_index(q, q.ret) :
                  q \in {make_constant(emit_opcode(p, "Constant"), value)}} : TRUE

identifier_constant(p, name) == make_constant(p, StringV(name))

\* identifier_constant(self.previous.get_lexme_string()).
PreviousConstant(p) == identifier_constant(p, p.previous.lexeme)

\* emit_return as it would be without the case for initializers.
emit_return_nil(p) == emit_opcode(emit_opcode(p, "Nil"), "Return")

emit_return(p) ==
    emit_opcode(IF CurC(p).function_builder.kind = "Initializer"
                THEN emit_index(emit_opcode(p, "GetLocal"), 0)
                ELSE emit_opcode(p, "Nil"),
                "Return")

\* FunctionBuilder::build.
BuildFunction(fb) ==
    [has_name |-> fb.has_name, name |-> fb.name, arity |-> fb.arity,
     chunk |-> BuildChunk(fb.builder), upvalue_count |-> fb.upvalue_count,
     kind |-> fb.kind]

\* end_compile: emits the return, pops the compiler and builds its
\* function; ret is the id of the function in p.functions.
end_compile(p) ==
    LET Built(q) ==
            RaisePanic([q EXCEPT !.compilers = SubSeq(q.compilers, 1, Len(q.compilers) - 1),
                                 !.functions = Append(q.functions,
                                                      BuildFunction(CurC(q).function_builder)),
                                 !.ret = Len(q.functions) + 1],
                       BuildPanic(CurC(q).function_builder.builder))
    IN CHOOSE r \in {Built(q) : q \in {emit_return(p)}} : TRUE

begin_scope(p) ==
    [p EXCEPT !.compilers[Len(p.compilers)].scope_depth = CurC(p).scope_depth + 1]

\* The loop of end_scope over the popped locals from the i-th on, the
\* first half of them before the second.
RECURSIVE EmitScopeExit(_, _, _)
EmitScopeExit(p, is_captured, i) ==
    IF i > Len(is_captured) THEN p
    ELSE IF i = Len(is_captured)
    THEN emit_opcode(p, IF is_captured[i] THEN "CloseUpvalue" ELSE "Pop")
    ELSE CHOOSE r \in
             {EmitScopeExit(q, is_captured, (i + Len(is_captured)) \div 2 + 1) :
                  q \in {EmitScopeExit(p, SubSeq(is_captured, 1, (i + Len(is_captured)) \div 2),
                                       i)}} : TRUE

\* end_scope as it would be if it left scope_depth as it is.
end_scope_same_depth(p) ==
    IF CurC(p).scope_depth = 0
    THEN RaisePanic(p, "attempt to subtract with overflow")
    ELSE CHOOSE r \in {EmitScopeExit(SetCurC(p, x.c), x.is_captured, 1) :
                       x \in {remove_out_of_scope_locals(CurC(p))}} : TRUE

\* end_scope: scope_depth is a usize; leaving depth 0 overflows.
end_scope(p) ==
    IF CurC(p).scope_depth = 0
    THEN RaisePanic(p, "attempt to subtract with overflow")
    ELSE CHOOSE r \in {EmitScopeExit(SetCurC(p, x.c), x.is_captured, 1) :
                       x \in {remove_out_of_scope_locals(
                                  [CurC(p) EXCEPT !.scope_depth = CurC(p).scope_depth - 1])}}
             : TRUE

\* add_local as it would be if a local had the depth of its block at once.
add_local_initialized(p, name) ==
    IF Len(CurC(p).locals) < U8Max
    THEN [p EXCEPT !.compilers[Len(p.compilers)].locals =
                       Append(CurC(p).locals, Local(name, CurC(p).scope_depth))]
    ELSE error(p, "Too many local variables in function.")

add_local(p, name) ==
    IF Len(CurC(p).locals) < U8Max
    THEN [p EXCEPT !.compilers[Len(p.compilers)].locals =
                       Append(CurC(p).locals, Local(name, -1))]
    ELSE error(p, "Too many local variables in function.")

declare_variable(p) ==
    IF CurC(p).scope_depth > 0
    THEN IF ~check_variable_declared_in_current_scope(CurC(p), p.previous)
         THEN add_local(p, p.previous)
         ELSE error(p, "Already declared a variable with this name in this scope.")
    ELSE p

define_variable(p, global) ==
    IF CurC(p).scope_depth = 0
    THEN emit_index(emit_opcode(p, "DefineGlobal"), global)
    ELSE SetCurC(p, mark_local_initialized(CurC(p)))

\* parse_variable: ret is the constant index of the name (0 for a local).
parse_variable(p, error_message) ==
    CHOOSE r \in {IF CurC(q).scope_depth > 0 THEN [q EXCEPT !.ret = 0]
                  ELSE PreviousConstant(q) :
                  q \in {declare_variable(consume(p, "Identifier", error_message))}} : TRUE

\* Parser::add_upvalue as it would be if every upvalue were entered as a
\* local of the enclosing function.
add_upvalue_as_local(p, compiler_index, index, is_local) ==
    CHOOSE r \in
        {IF x.ret # -1
         THEN [p EXCEPT !.compilers[compiler_index] = x.c, !.ret = x.ret]
         ELSE [error(p, "Too many closures variables in function.") EXCEPT !.ret = 0] :
         x \in {CompilerAddUpvalue(p.compilers[compiler_index], Upvalue(index, TRUE))}}
        : TRUE

\* Parser::add_upvalue: ret is the upvalue index.
add_upvalue(p, compiler_index, index, is_local) ==
    CHOOSE r \in
        {IF x.ret # -1
         THEN [p EXCEPT !.compilers[compiler_index] = x.c, !.ret = x.ret]
         ELSE [error(p, "Too many closures variables in function.") EXCEPT !.ret = 0] :
         x \in {CompilerAddUpvalue(p.compilers[compiler_index], Upvalue(index, is_local))}}
        : TRUE

\* resolve_upvalue(depth, token): depth is the 0-based index of the compiler
\* the name is used in; ret is the upvalue index or -1.
RECURSIVE resolve_upvalue(_, _, _)
resolve_upvalue(p, depth, token) ==
    LET Enclosing(q) == IF q.ret # -1 THEN add_upvalue(q, depth + 1, q.ret % 256, FALSE)
                        ELSE [q EXCEPT !.ret = -1]
        Captured(local) ==
            IF local # -1
            THEN add_upvalue([p EXCEPT !.compilers[depth].locals[local + 1].is_captured = TRUE],
                             depth + 1, local % 256, TRUE)
            ELSE CHOOSE r \in {Enclosing(q) : q \in {resolve_upvalue(p, depth - 1, token)}}
                     : TRUE
    IN IF depth >= 1 THEN Captured(resolve(p.compilers[depth], token).arg)
       ELSE [p EXCEPT !.ret = -1]

\* str::parse::<f64> on a lexeme of decimal digits (f64 values are modelled
\* by integers; the scanner's fractional lexemes are outside the model).
Digits == <<"0", "1", "2", "3", "4", "5", "6", "7", "8", "9">>

DigitOf(ch) == (CHOOSE i \in 1..10 : Digits[i] = ch) - 1

RECURSIVE ParseNumber(_)
ParseNumber(lexeme) ==
    IF Len(lexeme) = 0 THEN 0
    ELSE 10 * ParseNumber(SubSeq(lexeme, 1, Len(lexeme) - 1))
         + DigitOf(SubSeq(lexeme, Len(lexeme), Len(lexeme)))

\* Method(name, p, arg) is the call self.name(arg) of one of the three
\* methods every recursion of the parser goes through: declaration,
\* statement and parse_precedence.
RECURSIVE Method(_, _, _)

expression(p) == Method("parse_precedence", p, PrecAssignment)

number(p) == emit_constant(p, DoubleV(ParseNumber(p.previous.lexeme)))

literal(p) ==
    emit_opcode(p, CASE p.previous.type = "True" -> "True"
                     [] p.previous.type = "False" -> "False"
                     [] p.previous.type = "Nil" -> "Nil")

string(p) ==
    emit_constant(p, StringV(SubSeq(p.previous.lexeme, 2, Len(p.previous.lexeme) - 1)))

grouping(p) ==
    CHOOSE r \in {consume(e, "RightParen", "Expected ')' after expression.") :
                  e \in {expression(p)}} : TRUE

unary(p) ==
    CHOOSE r \in {emit_opcode(e, IF p.previous.type = "Bang" THEN "Not" ELSE "Negate") :
                  e \in {Method("parse_precedence", p, PrecUnary)}} : TRUE

\* The first half of named_variable: the name resolved as a local, an
\* upvalue or a global; ret is the operand, kind the opcode suffix.
ResolveVariable(p, name) ==
    LET Resolved(q, kind, arg) == [p |-> q, kind |-> kind, arg |-> arg]
        AsUpvalue(u) ==
            IF u.ret # -1 THEN Resolved(u, "Upvalue", u.ret)
            ELSE CHOOSE r \in {Resolved(g, "Global", g.ret) :
                               g \in {identifier_constant(u, name.lexeme)}} : TRUE
        AsLocal(q, local) ==
            IF local # -1 THEN Resolved(q, "Local", local)
            ELSE CHOOSE r \in {AsUpvalue(u) :
                               u \in {resolve_upvalue(q, Len(q.compilers) - 1, name)}} : TRUE
    IN CHOOSE r \in
           {AsLocal(IF x.uninitialized
                    THEN error(p, "Can't read local variable in its own initializer.")
                    ELSE p,
                    x.arg) :
            x \in {resolve(CurC(p), name)}} : TRUE

named_variable(p, name, can_assign) ==
    LET Emit(v) ==
            IF can_assign /\ check(v.p, "Equal")
            THEN CHOOSE r \in {emit_index(emit_opcode(e, "Set" \o v.kind), v.arg % 256) :
                               e \in {expression(advance(v.p))}} : TRUE
            ELSE emit_index(emit_opcode(v.p, "Get" \o v.kind), v.arg % 256)
    IN CHOOSE r \in {Emit(v) : v \in {ResolveVariable(p, name)}} : TRUE

variable(p, can_assign) == named_variable(p, p.previous, can_assign)

this(p) ==
    IF p.class_compilers = <<>>
    THEN error(p, "Cannot use 'this' outside of a class")
    ELSE variable(p, FALSE)

\* One pass of the loop of argument_list up to its test of the comma.
\* arg_count is a u8: arg_count += 1 at 255 panics in a build with overflow
\* checks and wraps to 0 in a build without.
ArgumentIteration(p, arg_count) ==
    CHOOSE r \in
        {[p |-> IF arg_count = U8Max
                THEN IF e.overflow_checks
                     THEN RaisePanic(error(e, "Can't have more than 255 arguments."),
                                     "attempt to add with overflow")
                     ELSE error(e, "Can't have more than 255 arguments.")
                ELSE e,
          arg_count |-> (arg_count + 1) % (U8Max + 1)] :
         e \in {expression(p)}} : TRUE

\* The loop of argument_list; ret is the count it ends with.
RECURSIVE ArgumentLoop(_, _)
ArgumentLoop(p, arg_count) ==
    LET Counted(x) == IF x.p.panic = "" /\ check(x.p, "Comma")
                      THEN ArgumentLoop(advance(x.p), x.arg_count)
                      ELSE [x.p EXCEPT !.ret = x.arg_count]
    IN CHOOSE r \in {Counted(x) : x \in {ArgumentIteration(p, arg_count)}} : TRUE

\* argument_list: ret is the number of arguments.
argument_list(p) ==
    IF ~check(p, "RightParen")
    THEN CHOOSE r \in {[consume(a, "RightParen", "Expected ')' after arguments.")
                           EXCEPT !.ret = a.ret] :
                       a \in {ArgumentLoop(p, 0)}} : TRUE
    ELSE [consume(p, "RightParen", "Expected ')' after arguments.") EXCEPT !.ret = 0]

call(p) ==
    CHOOSE r \in {emit_index(emit_opcode(a, "Call"), a.ret) :
                  a \in {argument_list(p)}} : TRUE

dot(p, can_assign) ==
    LET Access(b, name) ==
            IF can_assign /\ check(b, "Equal")
            THEN CHOOSE r \in {emit_index(emit_opcode(e, "SetProperty"), name) :
                               e \in {expression(advance(b))}} : TRUE
            ELSE IF check(b, "LeftParen")
            THEN CHOOSE r \in {emit_index(emit_index(emit_opcode(a, "Invoke"), name), a.ret) :
                               a \in {argument_list(advance(b))}} : TRUE
            ELSE emit_index(emit_opcode(b, "GetProperty"), name)
    IN CHOOSE r \in {Access(b, b.ret) :
                     b \in {PreviousConstant(consume(p, "Identifier",
                                                     "Expected property name after '.'."))}}
           : TRUE

BinaryOpcodes(operator) ==
    CASE operator = "BangEqual" -> <<"Equal", "Not">>
      [] operator = "EqualEqual" -> <<"Equal">>
      [] operator = "Greater" -> <<"Greater">>
      [] operator = "GreaterEqual" -> <<"Less", "Not">>
      [] operator = "Less" -> <<"Less">>
      [] operator = "LessEqual" -> <<"Greater", "Not">>
      [] operator = "Plus" -> <<"Add">>
      [] operator = "Minus" -> <<"Subtract">>
      [] operator = "Star" -> <<"Multiply">>
      [] operator = "Slash" -> <<"Divide">>

binary(p) ==
    CHOOSE r \in {emit_opcodes(e, BinaryOpcodes(p.previous.type), 1) :
                  e \in {Method("parse_precedence", p,
                                 one_higher(ParseRules(p.previous.type).precedence))}}
        : TRUE

\* and as it would be if it left the left operand under the right one.
and_keeps_left(p) ==
    LET Right(j) ==
            CHOOSE r \in {patch_jump(e, j.ret) :
                          e \in {Method("parse_precedence", j, PrecAnd)}}
                : TRUE
    IN Right(emit_jump(p, "JumpIfFalse"))

and(p) ==
    LET Right(j) ==
            CHOOSE r \in {patch_jump(e, j.ret) :
                          e \in {Method("parse_precedence", emit_opcode(j, "Pop"), PrecAnd)}}
                : TRUE
    IN Right(emit_jump(p, "JumpIfFalse"))

or(p) ==
    LET Right(b, else_jump) ==
            CHOOSE r \in {patch_jump(e, b.ret) :
                          e \in {Method("parse_precedence",
                                         emit_opcode(patch_jump(b, else_jump), "Pop"),
                                         PrecOr)}} : TRUE
        Else(a) == Right(emit_jump(a, "Jump"), a.ret)
    IN Else(emit_jump(p, "JumpIfFalse"))

\* parse_precedence's call of the prefix function a ParseRule names, or the
\* error it reports when the rule has none.
PrefixRule(p, rule, can_assign) ==
    CASE rule = "grouping" -> grouping(p)
      [] rule = "unary" -> unary(p)
      [] rule = "variable" -> variable(p, can_assign)
      [] rule = "string" -> string(p)
      [] rule = "number" -> number(p)
      [] rule = "literal" -> literal(p)
      [] rule = "this" -> this(p)
      [] rule = "None" -> error(p, "Expected expression.")

\* Calls the infix function a ParseRule names; unwrap() of no rule panics.
InfixRule(p, rule, can_assign) ==
    CASE rule = "call" -> call(p)
      [] rule = "dot" -> dot(p, can_assign)
      [] rule = "binary" -> binary(p)
      [] rule = "and" -> and(p)
      [] rule = "or" -> or(p)
      [] OTHER -> RaisePanic(p, "called Option::unwrap() on a None value")

RECURSIVE InfixLoop(_, _, _)
InfixLoop(p, precedence, can_assign) ==
    IF p.panic = "" /\ precedence <= ParseRules(p.current.type).precedence
    THEN CHOOSE r \in {InfixLoop(InfixRule(q, ParseRules(q.previous.type).infix, can_assign),
                                 precedence, can_assign) :
                       q \in {advance(p)}} : TRUE
    ELSE p

\* Once the token iterator is exhausted advance() leaves previous as it is,
\* so a prefix function that calls parse_precedence first thing (grouping,
\* unary) is called again in the same parser state, and again: the
\* recursion ends with the stack; the process is aborted.
RecursesForever(p) ==
    /\ p.pos > Len(p.source)
    /\ ParseRules(p.previous.type).prefix \in {"grouping", "unary"}

\* parse_precedence as it would be with the flag always true.
parse_precedence_always_assignable(p, precedence) ==
    IF RecursesForever(p) THEN RaisePanic(p, "stack overflow")
    ELSE
    CHOOSE r \in
        {IF check(i, "Equal")
         THEN error(advance(i), "Invalid assignment target.")
         ELSE i :
         i \in {InfixLoop(x, precedence, TRUE) :
         x \in {PrefixRule(q, ParseRules(q.previous.type).prefix, TRUE) :
         q \in {advance(p)}}}} : TRUE

parse_precedence(p, precedence) ==
    IF RecursesForever(p) THEN RaisePanic(p, "stack overflow")
    ELSE
    CHOOSE r \in
        {IF precedence <= PrecAssignment /\ check(i, "Equal")
         THEN error(advance(i), "Invalid assignment target.")
         ELSE i :
         i \in {InfixLoop(x, precedence, precedence <= PrecAssignment) :
         x \in {PrefixRule(q, ParseRules(q.previous.type).prefix,
                            precedence <= PrecAssignment) :
         q \in {advance(p)}}}} : TRUE

print_statement(p) ==
    CHOOSE r \in {emit_opcode(consume(e, "Semicolon", "Expected ';' after value."), "Print") :
                  e \in {expression(p)}} : TRUE

\* expression_statement as it would be if it left the value on the stack.
expression_statement_kept(p) ==
    CHOOSE r \in {consume(e, "Semicolon", "Expected ';' after expression.") :
                  e \in {expression(p)}} : TRUE

expression_statement(p) ==
    CHOOSE r \in {emit_opcode(consume(e, "Semicolon", "Expected ';' after expression."),
                              "Pop") :
                  e \in {expression(p)}} : TRUE

var_declaration(p) ==
    LET Define(q, global) ==
            define_variable(consume(q, "Semicolon",
                                    "Expected ';' after variable declaration."),
                            global)
        Initializer(v) ==
            IF check(v, "Equal")
            THEN CHOOSE r \in {Define(e, v.ret) : e \in {expression(advance(v))}} : TRUE
            ELSE Define(emit_opcode(v, "Nil"), v.ret)
    IN CHOOSE r \in {Initializer(v) : v \in {parse_variable(p, "Expected variable name.")}}
           : TRUE

\* return_statement as it would be if init could return a value.
return_statement_any_value(p) ==
    LET Value(q) ==
            CHOOSE r \in
                {emit_opcode(consume(e, "Semicolon", "Expected ';' after return value."),
                             "Return") :
                 e \in {expression(q)}} : TRUE
        Returned(q) == IF check(q, "Semicolon") THEN emit_return(advance(q)) ELSE Value(q)
    IN Returned(IF CurC(p).function_builder.kind = "Script"
                THEN error(p, "Can't return from top-level code.")
                ELSE p)

return_statement(p) ==
    LET Value(q) ==
            CHOOSE r \in
                {emit_opcode(consume(e, "Semicolon", "Expected ';' after return value."),
                             "Return") :
                 e \in {expression(IF CurC(q).function_builder.kind = "Initializer"
                                   THEN error(q, "Cannot return a value from an initializer.")
                                   ELSE q)}} : TRUE
        Returned(q) == IF check(q, "Semicolon") THEN emit_return(advance(q)) ELSE Value(q)
    IN Returned(IF CurC(p).function_builder.kind = "Script"
                THEN error(p, "Can't return from top-level code.")
                ELSE p)

if_statement(p) ==
    LET Else(q, else_branch) ==
            IF check(q, "Else")
            THEN CHOOSE r \in {patch_jump(s, else_branch) :
                               s \in {Method("statement", advance(q), 0)}} : TRUE
            ELSE patch_jump(q, else_branch)
        ThenEnd(e, then_branch) ==
            Else(emit_opcode(patch_jump(e, then_branch), "Pop"), e.ret)
        Then(t) ==
            CHOOSE r \in {ThenEnd(emit_jump(s, "Jump"), t.ret) :
                          s \in {Method("statement", emit_opcode(t, "Pop"), 0)}} : TRUE
    IN CHOOSE r \in
           {Then(emit_jump(consume(c, "RightParen", "Expected ')' after condition."),
                           "JumpIfFalse")) :
            c \in {expression(consume(p, "LeftParen", "Expected '(' after 'if'."))}} : TRUE

while_statement(p) ==
    LET Body(j) ==
            CHOOSE r \in
                {emit_opcode(patch_jump(emit_loop(s, Len(current_chunk(p).code)), j.ret),
                             "Pop") :
                 s \in {Method("statement", emit_opcode(j, "Pop"), 0)}} : TRUE
    IN CHOOSE r \in
           {Body(emit_jump(consume(c, "RightParen", "Expected ')' after condition."),
                           "JumpIfFalse")) :
            c \in {expression(consume(p, "LeftParen", "Expected '(' after 'while'."))}} : TRUE

\* exit_jump is an Option<Patch>: -1 is None.
for_statement(p) ==
    LET Exit(q, exit_jump) ==
            end_scope(IF exit_jump # -1
                      THEN emit_opcode(patch_jump(q, exit_jump), "Pop")
                      ELSE q)
        Body(q, loop_start, exit_jump) ==
            CHOOSE r \in {Exit(emit_loop(s, loop_start), exit_jump) :
                          s \in {Method("statement", q, 0)}} : TRUE
        Increment(b, loop_start, exit_jump) ==
            CHOOSE r \in
                {Body(patch_jump(emit_loop(consume(emit_opcode(e, "Pop"), "RightParen",
                                                   "Expected ')' after for clause."),
                                           loop_start),
                                 b.ret),
                      Len(current_chunk(b).code), exit_jump) :
                 e \in {expression(b)}} : TRUE
        Clause(q, loop_start, exit_jump) ==
            IF ~check(q, "RightParen")
            THEN Increment(emit_jump(q, "Jump"), loop_start, exit_jump)
            ELSE Body(advance(q), loop_start, exit_jump)
        Condition(q) ==
            IF ~check(q, "Semicolon")
            THEN CHOOSE r \in
                     {Clause(emit_opcode(j, "Pop"), Len(current_chunk(q).code), j.ret) :
                      j \in {emit_jump(consume(e, "Semicolon",
                                               "Expected ';' after loop condition."),
                                       "JumpIfFalse") :
                      e \in {expression(q)}}} : TRUE
            ELSE Clause(advance(q), Len(current_chunk(q).code), -1)
        Initializer(q) ==
            CHOOSE r \in {Condition(i) :
                          i \in {CASE check(q, "Semicolon") -> advance(q)
                                   [] check(q, "Var") -> var_declaration(advance(q))
                                   [] OTHER -> expression_statement(q)}} : TRUE
    IN Initializer(consume(begin_scope(p), "LeftParen", "Expected '(' after 'for'."))

\* The parser q after a loop iteration that began at p: stalled records an
\* iteration that consumed no token, and ends the loops.
Iterated(p, q) ==
    IF q.panic = "" /\ q.pos = p.pos THEN [q EXCEPT !.stalled = TRUE] ELSE q

\* The message of block() ends its quotation of } with U+2019 in the source;
\* it is written with ' here, as strings are ASCII.
RECURSIVE BlockLoop(_)
BlockLoop(p) ==
    IF p.panic = "" /\ ~p.stalled /\ ~check(p, "RightBrace") /\ ~check(p, "EOF")
    THEN CHOOSE r \in {BlockLoop(Iterated(p, q)) :
                       q \in {Method("declaration", p, 0)}} : TRUE
    ELSE p

block(p) ==
    CHOOSE r \in {consume(b, "RightBrace", "Expected '}' after block.") :
                  b \in {BlockLoop(p)}} : TRUE

statement(p) ==
    CASE check(p, "Print") -> print_statement(advance(p))
      [] check(p, "If") -> if_statement(advance(p))
      [] check(p, "While") -> while_statement(advance(p))
      [] check(p, "For") -> for_statement(advance(p))
      [] check(p, "Return") -> return_statement(advance(p))
      [] check(p, "LeftBrace") ->
             CHOOSE r \in {end_scope(b) : b \in {block(begin_scope(advance(p)))}} : TRUE
      [] OTHER -> expression_statement(p)

RECURSIVE ParameterLoop(_)
ParameterLoop(p) ==
    LET More(d) == IF check(d, "Comma") THEN ParameterLoop(advance(d)) ELSE d
        Arity(a) ==
            CHOOSE r \in
                {More(define_variable(v, v.ret)) :
                 v \in {parse_variable(
                            IF CurC(a).function_builder.arity > 255
                            THEN error_at_current(a, "Can't have more than 255 parameter names.")
                            ELSE a,
                            "Expected parameter name.")}} : TRUE
    IN Arity([p EXCEPT !.compilers[Len(p.compilers)].function_builder.arity =
                           CurC(p).function_builder.arity + 1])

RECURSIVE EmitUpvalues(_, _, _)
EmitUpvalues(p, upvalues, i) ==
    IF i > Len(upvalues) THEN p
    ELSE EmitUpvalues(
             emit_index(emit_index(p, IF upvalues[i].is_local THEN 1 ELSE 0),
                        upvalues[i].index),
             upvalues, i + 1)

\* Compiler::new(kind) with the name the function takes from the previous
\* token.
NamedCompiler(kind, name) ==
    IF kind # "Script"
    THEN [CompilerNew(kind) EXCEPT !.function_builder.has_name = TRUE,
                                   !.function_builder.name = name]
    ELSE CompilerNew(kind)

function(p, kind) ==
    LET Closure(q, upvalues) ==
            CHOOSE r \in {EmitUpvalues(emit_index(c, c.ret), upvalues, 1) :
                          c \in {make_constant(emit_opcode(q, "Closure"), FunctionV(q.ret))}}
                : TRUE
        End(b) == CHOOSE r \in {Closure(q, CurC(b).upvalues) : q \in {end_compile(b)}} : TRUE
        Body(q) ==
            CHOOSE r \in
                {End(b) :
                 b \in {block(consume(consume(q, "RightParen",
                                              "Expected ')' after parameters."),
                                      "LeftBrace", "Expected '{' before function body."))}}
                : TRUE
        Parameters(q) ==
            IF ~check(q, "RightParen")
            THEN CHOOSE r \in {Body(x) : x \in {ParameterLoop(q)}} : TRUE
            ELSE Body(q)
    IN Parameters(consume(begin_scope([p EXCEPT !.compilers =
                                            Append(p.compilers,
                                                   NamedCompiler(kind, p.previous.lexeme))]),
                          "LeftParen", "Expected '(' after function name."))

function_declaration(p) ==
    LET Define(v) ==
            CHOOSE r \in {define_variable(f, v.ret) :
                          f \in {function(SetCurC(v, mark_local_initialized(CurC(v))),
                                          "Function")}} : TRUE
    IN CHOOSE r \in {Define(v) : v \in {parse_variable(p, "Expected function name.")}} : TRUE

method(p) ==
    LET Body(b) ==
            CHOOSE r \in {emit_index(emit_opcode(f, "Method"), b.ret) :
                          f \in {function(b, IF b.previous.lexeme = INIT
                                             THEN "Initializer" ELSE "Method")}} : TRUE
    IN CHOOSE r \in {Body(b) :
                     b \in {PreviousConstant(consume(p, "Identifier",
                                                     "Expected method name."))}} : TRUE

RECURSIVE MethodLoop(_)
MethodLoop(p) ==
    IF p.panic = "" /\ ~p.stalled /\ ~check(p, "RightBrace") /\ ~check(p, "EOF")
    THEN CHOOSE r \in {MethodLoop(Iterated(p, q)) : q \in {method(p)}} : TRUE
    ELSE p

\* The line of a synthetic token is u32::MAX, written -1 here: it is never
\* read, the token only names a local.
synthetic_token(token_type, text) == Token(token_type, text, -1)

\* self.class_compilers.push(ClassCompiler::new()).
PushClassCompiler(p) ==
    [p EXCEPT !.class_compilers = Append(p.class_compilers, [has_superclass |-> FALSE])]

\* self.class_compilers.last_mut().unwrap().has_superclass = true.
SetHasSuperclass(p) ==
    [p EXCEPT !.class_compilers[Len(p.class_compilers)].has_superclass = TRUE]

\* The end of class_declaration: the scope of "super" is left and the
\* class compiler popped.
PopClassCompiler(p) ==
    CHOOSE r \in {[q EXCEPT !.class_compilers =
                                SubSeq(q.class_compilers, 1, Len(q.class_compilers) - 1)] :
                  q \in {IF p.class_compilers[Len(p.class_compilers)].has_superclass
                         THEN end_scope(p)
                         ELSE p}} : TRUE

class_declaration(p) ==
    LET Body(f, class_name) ==
            CHOOSE r \in
                {PopClassCompiler(emit_opcode(consume(m, "RightBrace",
                                                      "Expected '}' after class body."),
                                              "Pop")) :
                 m \in {MethodLoop(consume(v, "LeftBrace",
                                           "Expected '{' before class body.")) :
                 v \in {named_variable(f, class_name, FALSE)}}} : TRUE
        Inherit(s, class_name) ==
            CHOOSE r \in
                {Body(SetHasSuperclass(emit_opcode(v, "Inherit")), class_name) :
                 v \in {named_variable(
                            define_variable(
                                add_local(begin_scope(
                                              IF class_name.lexeme = s.previous.lexeme
                                              THEN error(s, "A class cannot inherit from itself.")
                                              ELSE s),
                                          synthetic_token("Identifier", SUPER)),
                                0),
                            class_name, FALSE)}} : TRUE
        Defined(e, class_name) ==
            IF check(e, "Less")
            THEN CHOOSE r \in
                     {Inherit(s, class_name) :
                      s \in {variable(consume(advance(e), "Identifier",
                                              "Expect superclass name."),
                                      FALSE)}} : TRUE
            ELSE Body(e, class_name)
        Declared(b, class_name) ==
            CHOOSE r \in
                {Defined(e, class_name) :
                 e \in {define_variable(
                            emit_index(emit_opcode(PushClassCompiler(declare_variable(b)),
                                                   "Class"),
                                       b.ret),
                            b.ret)}} : TRUE
        Named(a) == CHOOSE r \in {Declared(b, a.previous) : b \in {PreviousConstant(a)}}
                        : TRUE
    IN Named(consume(p, "Identifier", "Expected class name."))

SyncTokens == {"Class", "Fun", "Var", "For", "If", "While", "Print", "Return"}

RECURSIVE SynchronizeLoop(_)
SynchronizeLoop(p) ==
    IF check(p, "EOF") THEN p
    ELSE IF p.previous.type = "Semicolon" THEN p
    ELSE IF p.current.type \in SyncTokens THEN p
    ELSE SynchronizeLoop(advance(p))

synchronize(p) == SynchronizeLoop([p EXCEPT !.panic_mode = FALSE])

declaration(p) ==
    CHOOSE r \in {IF q.panic_mode THEN synchronize(q) ELSE q :
                  q \in {CASE check(p, "Class") -> class_declaration(advance(p))
                           [] check(p, "Fun") -> function_declaration(advance(p))
                           [] check(p, "Var") -> var_declaration(advance(p))
                           [] OTHER -> Method("statement", p, 0)}} : TRUE

\* The end of declaration().
Synchronized(p) == IF p.panic_mode THEN synchronize(p) ELSE p

\* The end of argument_list() and of call(), the rest of the infix loop and
\* of parse_precedence(), then the end of expression_statement() and of
\* declaration().
StatementAfterCall(p, arg_count) ==
    CHOOSE r \in
        {Synchronized(emit_opcode(consume(IF check(i, "Equal")
                                          THEN error(advance(i), "Invalid assignment target.")
                                          ELSE i,
                                          "Semicolon", "Expected ';' after expression."),
                                  "Pop")) :
         i \in {InfixLoop(c, PrecAssignment, TRUE) :
         c \in {emit_index(emit_opcode(a, "Call"), arg_count) :
         a \in {consume(p, "RightParen", "Expected ')' after arguments.")}}}} : TRUE

\* "after_call" is entered by the compiler that is followed one loop
\* iteration at a time.
Method(name, p, arg) ==
    CASE name = "declaration" -> declaration(p)
      [] name = "statement" -> statement(p)
      [] name = "parse_precedence" -> parse_precedence(p, arg)
      [] name = "after_call" -> StatementAfterCall(p, arg)

ParserNew(source) ==
    advance([source |-> source, pos |-> 1,
             current |-> Token("Error", "", 0),
             previous |-> Token("Error", "", 0),
             had_error |-> FALSE, panic_mode |-> FALSE,
             compilers |-> << CompilerNew("Script") >>,
             class_compilers |-> <<>>,
             functions |-> <<>>, diagnostics |-> <<>>,
             ret |-> 0, panic |-> "", stalled |-> FALSE, overflow_checks |-> TRUE])

RECURSIVE CompileLoop(_)
CompileLoop(p) ==
    IF p.panic = "" /\ ~p.stalled /\ ~check(p, "EOF")
    THEN CHOOSE r \in {CompileLoop(Iterated(p, q)) :
                       q \in {Method("declaration", p, 0)}} : TRUE
    ELSE matches(p, "EOF")

\* Parser::compile: ok is FALSE for Err(()); function is the script.
compile(source) ==
    CHOOSE r \in {[ok |-> ~p.had_error, function |-> p.ret, functions |-> p.functions,
                   diagnostics |-> p.diagnostics, panic |-> p.panic] :
                  p \in {end_compile(c) : c \in {CompileLoop(ParserNew(source))}}} : TRUE

(***************************************************************************)
(* Token streams.  The scanner (src/src/scanner.rs) gives every token its  *)
(* type, its lexeme and the number of its line; a program here is a list   *)
(* of lines, each a list of tokens without line numbers.                   *)
(***************************************************************************)
Lexemes ==
    [LeftParen |-> "(", RightParen |-> ")", LeftBrace |-> "{", RightBrace |-> "}",
     Comma |-> ",", Dot |-> ".", Minus |-> "-", Plus |-> "+", Semicolon |-> ";",
     Slash |-> "/", Star |-> "*", Bang |-> "!", BangEqual |-> "!=", Equal |-> "=",
     EqualEqual |-> "==", Greater |-> ">", GreaterEqual |-> ">=", Less |-> "<",
     LessEqual |-> "<=", And |-> "and", Class |-> "class", Else |-> "else",
     False |-> "false", For |-> "for", Fun |-> "fun", If |-> "if", Nil |-> "nil",
     Or |-> "or", Return |-> "return", Super |-> "super",
     This |-> "this", True |-> "true", Var |-> "var", While |-> "while",
     EOF |-> ""]
    @@ ("Print" :> "print")

K(type) == [type |-> type, lexeme |-> Lexemes[type]]

Id(name) == [type |-> "Identifier", lexeme |-> name]

Num(text) == [type |-> "Number", lexeme |-> text]

Str(text) == [type |-> "String", lexeme |-> "\"" \o text \o "\""]

RECURSIVE TokensOfLines(_, _)
TokensOfLines(lines, n) ==
    IF n > Len(lines) THEN << Token("EOF", "", Len(lines)) >>
    ELSE [i \in 1..Len(lines[n]) |-> Token(lines[n][i].type, lines[n][i].lexeme, n)]
         \o TokensOfLines(lines, n + 1)

Source(lines) == TokensOfLines(lines, 1)

(***************************************************************************)
(* The virtual machine (src/src/vm.rs) and run_program (src/src/lib.rs).   *)
(*                                                                         *)
(*   prog           the input: the program run_program is given            *)
(*   functions      the functions the compiler built (Rc<FunctionInner>)   *)
(*   diagnostics    what the compiler reported                             *)
(*   frames, stack, globals, open_upvalues, print_output, error_output     *)
(*                  the fields of struct VM; a frame is (closure, ip,      *)
(*                  slots), open_upvalues lists cell ids                   *)
(*   cells          the ObjUpvalue cells: location Stack(index) or         *)
(*                  Heap(value)                                            *)
(*   method_rcs     the Rc<Closure> allocations made by Clazz::set_method  *)
(*   classes, instances, bound_methods                                     *)
(*                  the Clazz, Instance and BoundMethod objects            *)
(*   result         "init" before run_program, "running" inside VM::run,   *)
(*                  then "ok" | "runtime_error" | "compile_error" | "panic"*)
(*   gen, gen_next  history variables: gen[i] names the push that created  *)
(*                  stack slot i, so that a slot that is popped and pushed *)
(*                  again is a different variable; a cell records in vid   *)
(*                  the slot it captured.                                  *)
(*   parser, loops  the Parser of a compilation that is followed one loop   *)
(*                  iteration at a time, and the loops it is inside        *)
(*   builder, patches, units                                               *)
(*                  a ChunkBuilder under a sequence of calls, the Patches  *)
(*                  it handed out, and a history variable: what each code  *)
(*                  unit was written as, an opcode or an operand           *)
(*   table, symbols a SymbolTable under a sequence of calls, and the       *)
(*                  Symbols it returned                                    *)
(*   scanner, scanned                                                      *)
(*                  a ScannerImpl, and what each call of next() on it      *)
(*                  returned                                               *)
(* The last nine are <<>> while run_program runs.                          *)
(***************************************************************************)
VARIABLES prog, functions, diagnostics, frames, stack, globals, open_upvalues,
          cells, method_rcs, classes, instances, bound_methods, print_output,
          error_output, result, gen, gen_next,
          parser, loops, builder, patches, units, table, symbols, scanner,
          scanned

vars == <<prog, functions, diagnostics, frames, stack, globals, open_upvalues,
          cells, method_rcs, classes, instances, bound_methods, print_output,
          error_output, result, gen, gen_next,
          parser, loops, builder, patches, units, table, symbols, scanner,
          scanned>>

unitVars == <<parser, loops, builder, patches, units, table, symbols, scanner,
              scanned>>

inputVars == <<prog, functions, diagnostics, unitVars>>

upvalueVars == <<open_upvalues, cells>>

objectVars == <<method_rcs, classes, instances, bound_methods>>

Frame == frames[Len(frames)]

Chunk(frame) == functions[frame.closure.n].chunk

\* The opcode read_opcode is about to read.
CurrentOpcode == OpName(Chunk(Frame).code[Frame.ip + 1])

Running(opcode) == result = "running" /\ CurrentOpcode = opcode

\* read_index for the k-th operand of the current instruction.
read_index(k) == Chunk(Frame).code[Frame.ip + 1 + k]

read_short == read_index(1) * 256 + read_index(2)

read_constant == Chunk(Frame).constants[read_index(1) + 1]

read_string == read_constant.s

\* The frames once the opcode and n operands are read.
inc_ip(n) == [frames EXCEPT ![Len(frames)].ip = Frame.ip + n]

RECURSIVE NatToString(_)
NatToString(n) ==
    IF n < 10 THEN Digits[n + 1]
    ELSE NatToString(n \div 10) \o Digits[(n % 10) + 1]

\* f64::to_string / u32 Display of an integral number.
NumberToString(n) == IF n < 0 THEN "-" \o NatToString(-n) ELSE NatToString(n)

FunctionToString(fid) ==
    "<fn " \o (IF functions[fid].has_name THEN functions[fid].name ELSE "<script>")
           \o ">"

\* impl Display for Value.
ValueToString(v) ==
    CASE v.t = "Bool" -> IF v.n = 1 THEN "true" ELSE "false"
      [] v.t = "Double" -> NumberToString(v.n)
      [] v.t = "String" -> v.s
      [] v.t = "Function" -> FunctionToString(v.n)
      [] v.t = "NativeFunction" -> "<native fn>"
      [] v.t = "Closure" -> FunctionToString(v.n)
      [] v.t = "Class" -> classes[v.n].name
      [] v.t = "Instance" -> classes[instances[v.n].clazz].name \o " instance"
      [] v.t = "BoundMethod" ->
             FunctionToString(method_rcs[bound_methods[v.n].method].n)
      [] v.t = "Nil" -> "nil"

\* PartialEq of ObjUpvalue: the locations are compared, Stack by index and
\* Heap by pointer (a cell owns its Rc<Value>).
UpvalueEq(c1, c2) ==
    \/ c1 = c2
    \/ cells[c1].loc = "Stack" /\ cells[c2].loc = "Stack"
       /\ cells[c1].index = cells[c2].index

\* PartialEq of Value (derived); receivers of bound methods are instances.
ValueEq(a, b) ==
    IF a.t # b.t THEN FALSE
    ELSE IF a.t = "Closure"
    THEN a.n = b.n /\ Len(a.up) = Len(b.up)
         /\ \A i \in 1..Len(a.up) : UpvalueEq(a.up[i], b.up[i])
    ELSE IF a.t = "BoundMethod"
    THEN bound_methods[a.n].method = bound_methods[b.n].method
         /\ bound_methods[a.n].receiver = bound_methods[b.n].receiver
    ELSE a = b

\* The stack after an instruction: the first keep slots of base, then the
\* pushed values; gen follows the pops and pushes.
SetStack(base, keep, pushed) ==
    /\ stack' = SubSeq(base, 1, keep) \o pushed
    /\ gen' = SubSeq(gen, 1, keep) \o [i \in 1..Len(pushed) |-> gen_next + i - 1]
    /\ gen_next' = gen_next + Len(pushed)

\* The instruction went through: run() loops.
Continue(fs, base, keep, pushed) ==
    /\ frames' = fs
    /\ SetStack(base, keep, pushed)
    /\ UNCHANGED <<error_output, result>>

\* runtime_error, one line per frame from the innermost, then reset_stack;
\* run() returns Err(RuntimeError).
TraceLine(frame, message) ==
    "[line " \o NumberToString(Chunk(frame).lines[frame.ip]) \o "] in "
    \o (IF functions[frame.closure.n].has_name
        THEN functions[frame.closure.n].name ELSE "script")
    \o "(): " \o message

\* runtime_error as it would be if it walked the frames from the script
\* to the innermost.
runtime_error_script_first(fs, message) ==
    /\ error_output' = error_output
           \o [i \in 1..Len(fs) |-> TraceLine(fs[i], message)]
    /\ frames' = <<>>
    /\ stack' = <<>>
    /\ gen' = <<>>
    /\ UNCHANGED gen_next
    /\ result' = "runtime_error"

runtime_error(fs, message) ==
    /\ error_output' = error_output
           \o [i \in 1..Len(fs) |-> TraceLine(fs[Len(fs) + 1 - i], message)]
    /\ frames' = <<>>
    /\ stack' = <<>>
    /\ gen' = <<>>
    /\ UNCHANGED gen_next
    /\ result' = "runtime_error"

\* VM::call as it would be with the frame based on the first argument
\* instead of the callee.
vm_call_base_at_argument(fs, base, closure, arg_count) ==
    IF arg_count = functions[closure.n].arity
    THEN Continue(Append(fs, [closure |-> closure, ip |-> 0,
                              slots |-> Len(base) - arg_count]),
                  base, Len(base), <<>>)
    ELSE runtime_error(fs, "Expected " \o NumberToString(functions[closure.n].arity)
                           \o " arguments, but got " \o NumberToString(arg_count)
                           \o ".")

\* VM::call as it would be if it pushed the frame before it checked the
\* arity.
vm_call_frame_first(fs, base, closure, arg_count) ==
    IF arg_count = functions[closure.n].arity
    THEN Continue(Append(fs, [closure |-> closure, ip |-> 0,
                              slots |-> Len(base) - arg_count - 1]),
                  base, Len(base), <<>>)
    ELSE runtime_error(Append(fs, [closure |-> closure, ip |-> 1,
                                   slots |-> Len(base) - arg_count - 1]),
                       "Expected " \o NumberToString(functions[closure.n].arity)
                       \o " arguments, but got " \o NumberToString(arg_count)
                       \o ".")

\* VM::call: the arity check and the new frame.
vm_call(fs, base, closure, arg_count) ==
    IF arg_count = functions[closure.n].arity
    THEN Continue(Append(fs, [closure |-> closure, ip |-> 0,
                              slots |-> Len(base) - arg_count - 1]),
                  base, Len(base), <<>>)
    ELSE runtime_error(fs, "Expected " \o NumberToString(functions[closure.n].arity)
                           \o " arguments, but got " \o NumberToString(arg_count)
                           \o ".")

\* A Rust panic inside run(): the process stops where it is.
Crash ==
    /\ result' = "panic"
    /\ UNCHANGED <<frames, stack, gen, gen_next, error_output>>

Top == stack[Len(stack)]

\* capture_upvalue as it would be without the search of the open list: every
\* capture makes a cell of its own.
capture_upvalue_unshared(st, location) ==
    [cells |-> Append(st.cells, [loc |-> "Stack", index |-> location,
                                 value |-> NilV, vid |-> gen[location + 1]]),
     open |-> Append(st.open, Len(st.cells) + 1),
     upvalue |-> Len(st.cells) + 1]

\* capture_upvalue as it would be if a cell found on the open list were
\* pushed on the list once more.
capture_upvalue_listed_again(st, location) ==
    LET hits == {i \in 1..Len(st.open) :
                    st.cells[st.open[i]].loc = "Stack"
                    /\ st.cells[st.open[i]].index = location}
    IN IF hits # {}
       THEN [cells |-> st.cells,
             open |-> Append(st.open,
                             st.open[CHOOSE i \in hits : \A j \in hits : j <= i]),
             upvalue |-> st.open[CHOOSE i \in hits : \A j \in hits : j <= i]]
       ELSE [cells |-> Append(st.cells, [loc |-> "Stack", index |-> location,
                                         value |-> NilV, vid |-> gen[location + 1]]),
             open |-> Append(st.open, Len(st.cells) + 1),
             upvalue |-> Len(st.cells) + 1]

\* capture_upvalue on the pair st = (cells, open): the open cell with that
\* location, searched from the rear, or a new cell pushed on the list.
capture_upvalue(st, location) ==
    LET hits == {i \in 1..Len(st.open) :
                    st.cells[st.open[i]].loc = "Stack"
                    /\ st.cells[st.open[i]].index = location}
    IN IF hits # {}
       THEN [cells |-> st.cells, open |-> st.open,
             upvalue |-> st.open[CHOOSE i \in hits : \A j \in hits : j <= i]]
       ELSE [cells |-> Append(st.cells, [loc |-> "Stack", index |-> location,
                                         value |-> NilV, vid |-> gen[location + 1]]),
             open |-> Append(st.open, Len(st.cells) + 1),
             upvalue |-> Len(st.cells) + 1]

\* The loop of OpCode::Closure over the operand pairs i..count.
RECURSIVE CaptureUpvalues(_, _, _, _)
CaptureUpvalues(st, upvalues, i, count) ==
    IF i > count THEN [cells |-> st.cells, open |-> st.open, upvalues |-> upvalues]
    ELSE LET is_local == read_index(2 * i) # 0
             index == read_index(2 * i + 1)
             r == capture_upvalue(st, Frame.slots + index)
         IN IF is_local
            THEN CaptureUpvalues(r, Append(upvalues, r.upvalue), i + 1, count)
            ELSE CaptureUpvalues(st, Append(upvalues, Frame.closure.up[index + 1]),
                                 i + 1, count)

\* close_upvalues(last) over the stack st: every open cell at or above last
\* leaves the list and becomes Heap(st[index]).
ClosingCells(last) ==
    {open_upvalues[i] : i \in {j \in 1..Len(open_upvalues) :
                                  cells[open_upvalues[j]].index >= last}}

ClosedCells(st, last) ==
    [c \in 1..Len(cells) |->
        IF c \in ClosingCells(last)
        THEN [loc |-> "Heap", index |-> 0, value |-> st[cells[c].index + 1],
              vid |-> cells[c].vid]
        ELSE cells[c]]

close_upvalues(st, last) ==
    /\ cells' = ClosedCells(st, last)
    /\ open_upvalues' = SelectSeq(open_upvalues, LAMBDA c : c \notin ClosingCells(last))

OpReturn ==
    /\ Running("Return")
    /\ LET value == Top
           frame == Frame
           fs == SubSeq(frames, 1, Len(frames) - 1)
       IN /\ close_upvalues(SubSeq(stack, 1, Len(stack) - 1), frame.slots)
          /\ IF fs = <<>>
             THEN /\ frames' = fs
                  /\ SetStack(stack, Len(stack) - 2, <<>>)
                  /\ result' = "ok"
                  /\ UNCHANGED error_output
             ELSE Continue(fs, stack, frame.slots, <<value>>)
    /\ UNCHANGED <<inputVars, globals, objectVars, print_output>>

\* Print as it would be if it wrote its line in front of the lines written
\* before.
OpPrintInFront ==
    /\ Running("Print")
    /\ print_output' = <<ValueToString(Top)>> \o print_output
    /\ Continue(inc_ip(1), stack, Len(stack) - 1, <<>>)
    /\ UNCHANGED <<inputVars, globals, upvalueVars, objectVars>>

OpPrint ==
    /\ Running("Print")
    /\ print_output' = Append(print_output, ValueToString(Top))
    /\ Continue(inc_ip(1), stack, Len(stack) - 1, <<>>)
    /\ UNCHANGED <<inputVars, globals, upvalueVars, objectVars>>

OpPop ==
    /\ Running("Pop")
    /\ Continue(inc_ip(1), stack, Len(stack) - 1, <<>>)
    /\ UNCHANGED <<inputVars, globals, upvalueVars, objectVars, print_output>>

OpDefineGlobal ==
    /\ Running("DefineGlobal")
    /\ globals' = (read_string :> Top) @@ globals
    /\ Continue(inc_ip(2), stack, Len(stack) - 1, <<>>)
    /\ UNCHANGED <<inputVars, upvalueVars, objectVars, print_output>>

OpGetGlobal ==
    /\ Running("GetGlobal")
    /\ IF read_string \in DOMAIN globals
       THEN Continue(inc_ip(2), stack, Len(stack), <<globals[read_string]>>)
       ELSE runtime_error(inc_ip(2), "Undefined variable '" \o read_string \o "'.")
    /\ UNCHANGED <<inputVars, globals, upvalueVars, objectVars, print_output>>

\* SetGlobal as it would be if it defined the variable it does not find.
OpSetGlobalDefining ==
    /\ Running("SetGlobal")
    /\ globals' = (read_string :> Top) @@ globals
    /\ Continue(inc_ip(2), stack, Len(stack), <<>>)
    /\ UNCHANGED <<inputVars, upvalueVars, objectVars, print_output>>

OpSetGlobal ==
    /\ Running("SetGlobal")
    /\ IF read_string \in DOMAIN globals
       THEN /\ globals' = [globals EXCEPT ![read_string] = Top]
            /\ Continue(inc_ip(2), stack, Len(stack), <<>>)
       ELSE /\ runtime_error(inc_ip(2), "Undefined variable '" \o read_string \o "'.")
            /\ UNCHANGED globals
    /\ UNCHANGED <<inputVars, upvalueVars, objectVars, print_output>>

OpGetLocal ==
    /\ Running("GetLocal")
    /\ Continue(inc_ip(2), stack, Len(stack),
                <<stack[Frame.slots + read_index(1) + 1]>>)
    /\ UNCHANGED <<inputVars, globals, upvalueVars, objectVars, print_output>>

OpSetLocal ==
    /\ Running("SetLocal")
    /\ Continue(inc_ip(2), [stack EXCEPT ![Frame.slots + read_index(1) + 1] = Top],
                Len(stack), <<>>)
    /\ UNCHANGED <<inputVars, globals, upvalueVars, objectVars, print_output>>

\* The value GetUpvalue reads through cell c.
UpvalueValue(c) ==
    IF cells[c].loc = "Stack" THEN stack[cells[c].index + 1] ELSE cells[c].value

OpGetUpvalue ==
    /\ Running("GetUpvalue")
    /\ Continue(inc_ip(2), stack, Len(stack),
                <<UpvalueValue(Frame.closure.up[read_index(1) + 1])>>)
    /\ UNCHANGED <<inputVars, globals, upvalueVars, objectVars, print_output>>

\* SetUpvalue as it would be if an open cell kept a copy of the value of
\* its own instead of pointing at the stack slot.
StoreUpvalueInCell(c, value) ==
    [stack |-> stack, cells |-> [cells EXCEPT ![c].value = value]]

\* What SetUpvalue stores through cell c: the stack slot of an open cell,
\* a new Heap value of a closed one.
StoreUpvalue(c, value) ==
    IF cells[c].loc = "Stack"
    THEN [stack |-> [stack EXCEPT ![cells[c].index + 1] = value], cells |-> cells]
    ELSE [stack |-> stack, cells |-> [cells EXCEPT ![c].value = value]]

OpSetUpvalue ==
    /\ Running("SetUpvalue")
    /\ LET r == StoreUpvalue(Frame.closure.up[read_index(1) + 1], Top)
       IN /\ cells' = r.cells
          /\ Continue(inc_ip(2), r.stack, Len(stack), <<>>)
    /\ UNCHANGED <<inputVars, globals, open_upvalues, objectVars, print_output>>

OpNegate ==
    /\ Running("Negate")
    /\ IF Top.t = "Double"
       THEN Continue(inc_ip(1), [stack EXCEPT ![Len(stack)] = DoubleV(Top.n * (-1))],
                     Len(stack), <<>>)
       ELSE runtime_error(inc_ip(1), "Operand must be a number.")
    /\ UNCHANGED <<inputVars, globals, upvalueVars, objectVars, print_output>>

OpAdd ==
    /\ Running("Add")
    /\ LET b == stack[Len(stack)]
           a == stack[Len(stack) - 1]
       IN IF a.t = "Double" /\ b.t = "Double"
          THEN Continue(inc_ip(1), stack, Len(stack) - 2, <<DoubleV(a.n + b.n)>>)
          ELSE IF a.t = "String" /\ b.t = "String"
          THEN Continue(inc_ip(1), stack, Len(stack) - 2, <<StringV(a.s \o b.s)>>)
          ELSE runtime_error(inc_ip(1), "Operands must be two numbers or two strings.")
    /\ UNCHANGED <<inputVars, globals, upvalueVars, objectVars, print_output>>

\* f1 / f2 where it is an integer; any other quotient is outside the
\* integers that model f64 and is kept as a marked Double.
Quotient(f1, f2) ==
    IF f2 > 0 /\ f1 % f2 = 0 THEN DoubleV(f1 \div f2)
    ELSE MkVal("Double", 0, "not an integer", <<>>)

\* The closures handed to binary_double_op.
DoubleOp(opcode, f1, f2) ==
    CASE opcode = "Subtract" -> DoubleV(f1 - f2)
      [] opcode = "Multiply" -> DoubleV(f1 * f2)
      [] opcode = "Divide" -> Quotient(f1, f2)
      [] opcode = "Less" -> BoolV(f1 < f2)
      [] opcode = "Greater" -> BoolV(f1 > f2)

binary_double_op(opcode) ==
    LET b == stack[Len(stack)]
        a == stack[Len(stack) - 1]
    IN IF a.t = "Double" /\ b.t = "Double"
       THEN Continue(inc_ip(1), stack, Len(stack) - 2, <<DoubleOp(opcode, a.n, b.n)>>)
       ELSE runtime_error(inc_ip(1), "Operands must be numbers.")

OpSubtract ==
    /\ Running("Subtract")
    /\ binary_double_op("Subtract")
    /\ UNCHANGED <<inputVars, globals, upvalueVars, objectVars, print_output>>

OpMultiply ==
    /\ Running("Multiply")
    /\ binary_double_op("Multiply")
    /\ UNCHANGED <<inputVars, globals, upvalueVars, objectVars, print_output>>

OpDivide ==
    /\ Running("Divide")
    /\ binary_double_op("Divide")
    /\ UNCHANGED <<inputVars, globals, upvalueVars, objectVars, print_output>>

OpLess ==
    /\ Running("Less")
    /\ binary_double_op("Less")
    /\ UNCHANGED <<inputVars, globals, upvalueVars, objectVars, print_output>>

OpGreater ==
    /\ Running("Greater")
    /\ binary_double_op("Greater")
    /\ UNCHANGED <<inputVars, globals, upvalueVars, objectVars, print_output>>

OpNot ==
    /\ Running("Not")
    /\ Continue(inc_ip(1), stack, Len(stack) - 1, <<BoolV(is_falsy(Top))>>)
    /\ UNCHANGED <<inputVars, globals, upvalueVars, objectVars, print_output>>

OpEqual ==
    /\ Running("Equal")
    /\ Continue(inc_ip(1), stack, Len(stack) - 2,
                <<BoolV(ValueEq(stack[Len(stack) - 1], stack[Len(stack)]))>>)
    /\ UNCHANGED <<inputVars, globals, upvalueVars, objectVars, print_output>>

OpConstant ==
    /\ Running("Constant")
    /\ Continue(inc_ip(2), stack, Len(stack), <<read_constant>>)
    /\ UNCHANGED <<inputVars, globals, upvalueVars, objectVars, print_output>>

OpTrue ==
    /\ Running("True")
    /\ Continue(inc_ip(1), stack, Len(stack), <<BoolV(TRUE)>>)
    /\ UNCHANGED <<inputVars, globals, upvalueVars, objectVars, print_output>>

OpFalse ==
    /\ Running("False")
    /\ Continue(inc_ip(1), stack, Len(stack), <<BoolV(FALSE)>>)
    /\ UNCHANGED <<inputVars, globals, upvalueVars, objectVars, print_output>>

OpNil ==
    /\ Running("Nil")
    /\ Continue(inc_ip(1), stack, Len(stack), <<NilV>>)
    /\ UNCHANGED <<inputVars, globals, upvalueVars, objectVars, print_output>>

OpJump ==
    /\ Running("Jump")
    /\ Continue(inc_ip(3 + read_short), stack, Len(stack), <<>>)
    /\ UNCHANGED <<inputVars, globals, upvalueVars, objectVars, print_output>>

\* JumpIfFalse as it would be with the test inverted.
OpJumpIfTruthy ==
    /\ Running("JumpIfFalse")
    /\ Continue(inc_ip(IF is_falsy(Top) THEN 3 ELSE 3 + read_short),
                stack, Len(stack), <<>>)
    /\ UNCHANGED <<inputVars, globals, upvalueVars, objectVars, print_output>>

OpJumpIfFalse ==
    /\ Running("JumpIfFalse")
    /\ Continue(inc_ip(IF is_falsy(Top) THEN 3 + read_short ELSE 3),
                stack, Len(stack), <<>>)
    /\ UNCHANGED <<inputVars, globals, upvalueVars, objectVars, print_output>>

\* dec_ip after read_short.
OpLoop ==
    /\ Running("Loop")
    /\ Continue(inc_ip(3 - read_short), stack, Len(stack), <<>>)
    /\ UNCHANGED <<inputVars, globals, upvalueVars, objectVars, print_output>>

\* The callee slot, arg_count below the top, overwritten with value.
SetCalleeSlot(base, arg_count, value) ==
    [base EXCEPT ![Len(base) - arg_count] = value]

ArityMessage(arity, arg_count) ==
    "Expected " \o NumberToString(arity) \o " arguments, but got "
    \o NumberToString(arg_count) \o "."

\* The seconds the native clock may return.
MaxClock == 1

\* The BoundMethod arm of call_value as it would be if it called the closure
\* and left the callee slot as it was.
call_bound_method_slot_kept(fs, base, bound, arg_count) ==
    vm_call(fs, base, method_rcs[bound.method], arg_count)

\* The BoundMethod arm of call_value: the receiver takes the callee slot and
\* the closure is called.
call_bound_method(fs, base, bound, arg_count) ==
    vm_call(fs, SetCalleeSlot(base, arg_count, bound.receiver),
            method_rcs[bound.method], arg_count)

\* call_value; instances grows when the callee is a class.
call_value(fs, base, callee, arg_count) ==
    CASE callee.t = "Closure" ->
             /\ vm_call(fs, base, callee, arg_count)
             /\ UNCHANGED instances
      [] callee.t = "NativeFunction" ->
             /\ IF arg_count = 0
                THEN \E now \in 0..MaxClock :
                         Continue(fs, base, Len(base) - arg_count - 1, <<DoubleV(now)>>)
                ELSE runtime_error(fs, ArityMessage(0, arg_count))
             /\ UNCHANGED instances
      [] callee.t = "Class" ->
             LET instance == InstanceV(Len(instances) + 1)
                 base2 == SetCalleeSlot(base, arg_count, instance)
                 methods == classes[callee.n].methods
             IN /\ instances' = Append(instances, [clazz |-> callee.n, fields |-> <<>>])
                /\ IF INIT \in DOMAIN methods
                   THEN vm_call(fs, base2, method_rcs[methods[INIT]], arg_count)
                   ELSE IF arg_count = 0
                   THEN Continue(fs, base2, Len(base2), <<>>)
                   ELSE runtime_error(fs, ArityMessage(0, arg_count))
      [] callee.t = "BoundMethod" ->
             /\ call_bound_method(fs, base, bound_methods[callee.n], arg_count)
             /\ UNCHANGED instances
      [] callee.t = "Function" -> Crash /\ UNCHANGED instances
      [] OTHER ->
             /\ runtime_error(fs, "Can only call functions and classes.")
             /\ UNCHANGED instances

OpCall ==
    /\ Running("Call")
    /\ call_value(inc_ip(2), stack, stack[Len(stack) - read_index(1)], read_index(1))
    /\ UNCHANGED <<inputVars, globals, upvalueVars, method_rcs, classes,
                   bound_methods, print_output>>

OpClosure ==
    /\ Running("Closure")
    /\ LET constant == read_constant
           count == functions[constant.n].upvalue_count
           r == CaptureUpvalues([cells |-> cells, open |-> open_upvalues], <<>>, 1, count)
       IN IF constant.t = "Function"
          THEN /\ cells' = r.cells
               /\ open_upvalues' = r.open
               /\ Continue(inc_ip(2 + 2 * count), stack, Len(stack),
                           <<ClosureV(constant.n, r.upvalues)>>)
          ELSE Crash /\ UNCHANGED upvalueVars
    /\ UNCHANGED <<inputVars, globals, objectVars, print_output>>

OpCloseUpvalue ==
    /\ Running("CloseUpvalue")
    /\ close_upvalues(stack, Len(stack) - 1)
    /\ Continue(inc_ip(1), stack, Len(stack) - 1, <<>>)
    /\ UNCHANGED <<inputVars, globals, objectVars, print_output>>

OpClass ==
    /\ Running("Class")
    /\ classes' = Append(classes, [name |-> read_string, methods |-> <<>>])
    /\ Continue(inc_ip(2), stack, Len(stack), <<ClassV(Len(classes) + 1)>>)
    /\ UNCHANGED <<inputVars, globals, upvalueVars, method_rcs, instances,
                   bound_methods, print_output>>

UndefinedProperty(name) == "Undefined property '" \o name \o "'.\n"

\* bind_method: the receiver on top of the stack becomes a BoundMethod.
bind_method(fs, clazz, name) ==
    IF name \in DOMAIN classes[clazz].methods
    THEN /\ bound_methods' = Append(bound_methods,
                                    [receiver |-> Top,
                                     method |-> classes[clazz].methods[name]])
         /\ Continue(fs, stack, Len(stack) - 1, <<BoundMethodV(Len(bound_methods) + 1)>>)
    ELSE /\ runtime_error(fs, UndefinedProperty(name))
         /\ UNCHANGED bound_methods

OpGetProperty ==
    /\ Running("GetProperty")
    /\ IF Top.t = "Instance"
       THEN IF read_string \in DOMAIN instances[Top.n].fields
            THEN /\ Continue(inc_ip(2), stack, Len(stack) - 1,
                             <<instances[Top.n].fields[read_string]>>)
                 /\ UNCHANGED bound_methods
            ELSE bind_method(inc_ip(2), instances[Top.n].clazz, read_string)
       ELSE /\ runtime_error(inc_ip(2), "Only instances have properties.")
            /\ UNCHANGED bound_methods
    /\ UNCHANGED <<inputVars, globals, upvalueVars, method_rcs, classes, instances,
                   print_output>>

OpSetProperty ==
    /\ Running("SetProperty")
    /\ LET value == stack[Len(stack)]
           instance == stack[Len(stack) - 1]
       IN IF instance.t = "Instance"
          THEN /\ instances' = [instances EXCEPT ![instance.n].fields =
                                    (read_string :> value) @@ instances[instance.n].fields]
               /\ Continue(inc_ip(2), stack, Len(stack) - 2, <<value>>)
          ELSE /\ runtime_error(inc_ip(2), "Only instances have properties.")
               /\ UNCHANGED instances
    /\ UNCHANGED <<inputVars, globals, upvalueVars, method_rcs, classes,
                   bound_methods, print_output>>

\* define_method: Clazz::set_method wraps the closure in a new Rc.
OpMethod ==
    /\ Running("Method")
    /\ LET closure == stack[Len(stack)]
           clazz == stack[Len(stack) - 1]
       IN IF closure.t = "Closure" /\ clazz.t = "Class"
          THEN /\ method_rcs' = Append(method_rcs, closure)
               /\ classes' = [classes EXCEPT ![clazz.n].methods =
                                  (read_string :> (Len(method_rcs) + 1))
                                  @@ classes[clazz.n].methods]
               /\ Continue(inc_ip(2), stack, Len(stack) - 1, <<>>)
          ELSE Crash /\ UNCHANGED <<method_rcs, classes>>
    /\ UNCHANGED <<inputVars, globals, upvalueVars, instances, bound_methods,
                   print_output>>

invoke_from_class(fs, clazz, name, arg_count) ==
    IF name \in DOMAIN classes[clazz].methods
    THEN vm_call(fs, stack, method_rcs[classes[clazz].methods[name]], arg_count)
    ELSE runtime_error(fs, UndefinedProperty(name))

\* invoke as it would be if it looked the method up before the field.
invoke_method_first(fs, name, arg_count) ==
    LET receiver == stack[Len(stack) - arg_count]
    IN IF receiver.t = "Instance"
       THEN IF name \in DOMAIN classes[instances[receiver.n].clazz].methods
            THEN /\ invoke_from_class(fs, instances[receiver.n].clazz, name, arg_count)
                 /\ UNCHANGED instances
            ELSE IF name \in DOMAIN instances[receiver.n].fields
            THEN LET value == instances[receiver.n].fields[name]
                 IN call_value(fs, SetCalleeSlot(stack, arg_count, value), value,
                               arg_count)
            ELSE /\ runtime_error(fs, UndefinedProperty(name))
                 /\ UNCHANGED instances
       ELSE /\ runtime_error(fs, "Only instances have methods.")
            /\ UNCHANGED instances

invoke(fs, name, arg_count) ==
    LET receiver == stack[Len(stack) - arg_count]
    IN IF receiver.t = "Instance"
       THEN IF name \in DOMAIN instances[receiver.n].fields
            THEN LET value == instances[receiver.n].fields[name]
                 IN call_value(fs, SetCalleeSlot(stack, arg_count, value), value,
                               arg_count)
            ELSE /\ invoke_from_class(fs, instances[receiver.n].clazz, name, arg_count)
                 /\ UNCHANGED instances
       ELSE /\ runtime_error(fs, "Only instances have methods.")
            /\ UNCHANGED instances

OpInvoke ==
    /\ Running("Invoke")
    /\ invoke(inc_ip(3), read_string, read_index(2))
    /\ UNCHANGED <<inputVars, globals, upvalueVars, method_rcs, classes,
                   bound_methods, print_output>>

\* Inherit as it would be if it copied nothing.
InheritedNothing(subclass, superclass) == subclass

\* The method table of the subclass once Inherit copied every (name, Rc)
\* pair of the superclass into it.
InheritedMethods(subclass, superclass) == superclass @@ subclass

OpInherit ==
    /\ Running("Inherit")
    /\ LET superclass == stack[Len(stack) - 1]
           subclass == stack[Len(stack)]
       IN IF superclass.t = "Class"
          THEN IF subclass.t = "Class"
               THEN /\ classes' = [classes EXCEPT ![subclass.n].methods =
                                       InheritedMethods(classes[subclass.n].methods,
                                                        classes[superclass.n].methods)]
                    /\ Continue(inc_ip(1), stack, Len(stack) - 1, <<>>)
               ELSE Crash /\ UNCHANGED classes
          ELSE /\ runtime_error(inc_ip(1), "Superclass must be a class.")
               /\ UNCHANGED classes
    /\ UNCHANGED <<inputVars, globals, upvalueVars, method_rcs, instances,
                   bound_methods, print_output>>

(***************************************************************************)
(* The programs run_program is given.  Each is shown as Lox text and       *)
(* written as the token stream the scanner produces for it; k is a number  *)
(* the program is parameterised by.                                        *)
(***************************************************************************)
RECURSIVE ArgumentTokens(_)
ArgumentTokens(k) ==
    IF k = 0 THEN <<>>
    ELSE IF k = 1 THEN <<Num("1")>>
    ELSE ArgumentTokens(k - 1) \o <<K("Comma"), Num("1")>>

(* Shadowing in nested blocks.
     var a = 1;
     { var a = 2; print a; { var a = 3; print a; } print a; }
     print a;
*)
ShadowProgram ==
    Source(<<
        <<K("Var"), Id("a"), K("Equal"), Num("1"), K("Semicolon")>>,
        <<K("LeftBrace"), K("Var"), Id("a"), K("Equal"), Num("2"),
           K("Semicolon"), K("Print"), Id("a"), K("Semicolon"),
           K("LeftBrace"), K("Var"), Id("a"), K("Equal"), Num("3"),
           K("Semicolon"), K("Print"), Id("a"), K("Semicolon"),
           K("RightBrace"), K("Print"), Id("a"), K("Semicolon"),
           K("RightBrace")>>,
        <<K("Print"), Id("a"), K("Semicolon")>>
    >>)

(* A parameter and a local shadow a global of the same name.
     var a = "global";
     fun f(a) { print a; { var a = "inner"; print a; } print a; }
     f(k);
     print a;
*)
ShadowFunctionProgram(k) ==
    Source(<<
        <<K("Var"), Id("a"), K("Equal"), Str("global"), K("Semicolon")>>,
        <<K("Fun"), Id("f"), K("LeftParen"), Id("a"), K("RightParen"),
           K("LeftBrace"), K("Print"), Id("a"), K("Semicolon"),
           K("LeftBrace"), K("Var"), Id("a"), K("Equal"), Str("inner"),
           K("Semicolon"), K("Print"), Id("a"), K("Semicolon"),
           K("RightBrace"), K("Print"), Id("a"), K("Semicolon"),
           K("RightBrace")>>,
        <<Id("f"), K("LeftParen"), Num(NatToString(k)), K("RightParen"),
           K("Semicolon")>>,
        <<K("Print"), Id("a"), K("Semicolon")>>
    >>)

(* Two closures over one variable, used while the declaring frame is live
   and after it returned.
     var g; var s;
     fun make() {
       var x = 0;
       fun get() { return x; }
       fun set(v) { x = v; }
       g = get; s = set;
       x = 5; print get();
       set(6); print x; print get();
       x = x + 1; print get();
     }
     make();
     print g();
     s(k); print g();
     var t = 9; print t; print g();
*)
SharedProgram(k) ==
    Source(<<
        <<K("Var"), Id("g"), K("Semicolon"), K("Var"), Id("s"),
           K("Semicolon")>>,
        <<K("Fun"), Id("make"), K("LeftParen"), K("RightParen"),
           K("LeftBrace")>>,
        <<K("Var"), Id("x"), K("Equal"), Num("0"), K("Semicolon")>>,
        <<K("Fun"), Id("get"), K("LeftParen"), K("RightParen"),
           K("LeftBrace"), K("Return"), Id("x"), K("Semicolon"),
           K("RightBrace")>>,
        <<K("Fun"), Id("set"), K("LeftParen"), Id("v"), K("RightParen"),
           K("LeftBrace"), Id("x"), K("Equal"), Id("v"), K("Semicolon"),
           K("RightBrace")>>,
        <<Id("g"), K("Equal"), Id("get"), K("Semicolon"), Id("s"),
           K("Equal"), Id("set"), K("Semicolon")>>,
        <<Id("x"), K("Equal"), Num("5"), K("Semicolon"), K("Print"),
           Id("get"), K("LeftParen"), K("RightParen"), K("Semicolon")>>,
        <<Id("set"), K("LeftParen"), Num("6"), K("RightParen"),
           K("Semicolon"), K("Print"), Id("x"), K("Semicolon"), K("Print"),
           Id("get"), K("LeftParen"), K("RightParen"), K("Semicolon")>>,
        <<Id("x"), K("Equal"), Id("x"), K("Plus"), Num("1"), K("Semicolon"),
           K("Print"), Id("get"), K("LeftParen"), K("RightParen"),
           K("Semicolon")>>,
        <<K("RightBrace")>>,
        <<Id("make"), K("LeftParen"), K("RightParen"), K("Semicolon")>>,
        <<K("Print"), Id("g"), K("LeftParen"), K("RightParen"),
           K("Semicolon")>>,
        <<Id("s"), K("LeftParen"), Num(NatToString(k)), K("RightParen"),
           K("Semicolon"), K("Print"), Id("g"), K("LeftParen"),
           K("RightParen"), K("Semicolon")>>,
        <<K("Var"), Id("t"), K("Equal"), Num("9"), K("Semicolon"),
           K("Print"), Id("t"), K("Semicolon"), K("Print"), Id("g"),
           K("LeftParen"), K("RightParen"), K("Semicolon")>>
    >>)

(* Two closures over a block local that CloseUpvalue closes.
     var f; var h;
     {
       var y = k;
       fun a() { return y; }
       fun b() { y = y + 1; }
       f = a; h = b;
       b(); print y;
     }
     h(); print f();
     { var z = 100; print z; }
     print f();
*)
BlockProgram(k) ==
    Source(<<
        <<K("Var"), Id("f"), K("Semicolon"), K("Var"), Id("h"),
           K("Semicolon")>>,
        <<K("LeftBrace")>>,
        <<K("Var"), Id("y"), K("Equal"), Num(NatToString(k)), K("Semicolon")>>,
        <<K("Fun"), Id("a"), K("LeftParen"), K("RightParen"),
           K("LeftBrace"), K("Return"), Id("y"), K("Semicolon"),
           K("RightBrace")>>,
        <<K("Fun"), Id("b"), K("LeftParen"), K("RightParen"),
           K("LeftBrace"), Id("y"), K("Equal"), Id("y"), K("Plus"), Num("1"),
           K("Semicolon"), K("RightBrace")>>,
        <<Id("f"), K("Equal"), Id("a"), K("Semicolon"), Id("h"), K("Equal"),
           Id("b"), K("Semicolon")>>,
        <<Id("b"), K("LeftParen"), K("RightParen"), K("Semicolon"),
           K("Print"), Id("y"), K("Semicolon")>>,
        <<K("RightBrace")>>,
        <<Id("h"), K("LeftParen"), K("RightParen"), K("Semicolon"),
           K("Print"), Id("f"), K("LeftParen"), K("RightParen"),
           K("Semicolon")>>,
        <<K("LeftBrace"), K("Var"), Id("z"), K("Equal"), Num("100"),
           K("Semicolon"), K("Print"), Id("z"), K("Semicolon"),
           K("RightBrace")>>,
        <<K("Print"), Id("f"), K("LeftParen"), K("RightParen"),
           K("Semicolon")>>
    >>)

(* A closure reaching a variable two functions up.
     fun outer() {
       var x = k;
       fun middle() {
         fun inner() { x = x + 1; return x; }
         return inner;
       }
       var i = middle();
       print i();
       print x;
       return i;
     }
     var j = outer();
     print j();
*)
NestedProgram(k) ==
    Source(<<
        <<K("Fun"), Id("outer"), K("LeftParen"), K("RightParen"),
           K("LeftBrace")>>,
        <<K("Var"), Id("x"), K("Equal"), Num(NatToString(k)), K("Semicolon")>>,
        <<K("Fun"), Id("middle"), K("LeftParen"), K("RightParen"),
           K("LeftBrace")>>,
        <<K("Fun"), Id("inner"), K("LeftParen"), K("RightParen"),
           K("LeftBrace"), Id("x"), K("Equal"), Id("x"), K("Plus"), Num("1"),
           K("Semicolon"), K("Return"), Id("x"), K("Semicolon"),
           K("RightBrace")>>,
        <<K("Return"), Id("inner"), K("Semicolon")>>,
        <<K("RightBrace")>>,
        <<K("Var"), Id("i"), K("Equal"), Id("middle"), K("LeftParen"),
           K("RightParen"), K("Semicolon")>>,
        <<K("Print"), Id("i"), K("LeftParen"), K("RightParen"),
           K("Semicolon")>>,
        <<K("Print"), Id("x"), K("Semicolon")>>,
        <<K("Return"), Id("i"), K("Semicolon")>>,
        <<K("RightBrace")>>,
        <<K("Var"), Id("j"), K("Equal"), Id("outer"), K("LeftParen"),
           K("RightParen"), K("Semicolon")>>,
        <<K("Print"), Id("j"), K("LeftParen"), K("RightParen"),
           K("Semicolon")>>
    >>)

(* Calls and returns; a return from inside a block with a captured local.
     fun add(a, b) { return a + b; }
     fun zero() { return 7; }
     fun one(a) { var t = a; { var u = t + 1; fun c() { return u; } return c; } }
     print add(k, 2);
     print zero();
     print one(k)();
     print add(zero(), add(1, k));
*)
CallProgram(k) ==
    Source(<<
        <<K("Fun"), Id("add"), K("LeftParen"), Id("a"), K("Comma"), Id("b"),
           K("RightParen"), K("LeftBrace"), K("Return"), Id("a"), K("Plus"),
           Id("b"), K("Semicolon"), K("RightBrace")>>,
        <<K("Fun"), Id("zero"), K("LeftParen"), K("RightParen"),
           K("LeftBrace"), K("Return"), Num("7"), K("Semicolon"),
           K("RightBrace")>>,
        <<K("Fun"), Id("one"), K("LeftParen"), Id("a"), K("RightParen"),
           K("LeftBrace"), K("Var"), Id("t"), K("Equal"), Id("a"),
           K("Semicolon"), K("LeftBrace"), K("Var"), Id("u"), K("Equal"),
           Id("t"), K("Plus"), Num("1"), K("Semicolon"), K("Fun"), Id("c"),
           K("LeftParen"), K("RightParen"), K("LeftBrace"), K("Return"),
           Id("u"), K("Semicolon"), K("RightBrace"), K("Return"), Id("c"),
           K("Semicolon"), K("RightBrace"), K("RightBrace")>>,
        <<K("Print"), Id("add"), K("LeftParen"), Num(NatToString(k)),
           K("Comma"), Num("2"), K("RightParen"), K("Semicolon")>>,
        <<K("Print"), Id("zero"), K("LeftParen"), K("RightParen"),
           K("Semicolon")>>,
        <<K("Print"), Id("one"), K("LeftParen"), Num(NatToString(k)),
           K("RightParen"), K("LeftParen"), K("RightParen"), K("Semicolon")>>,
        <<K("Print"), Id("add"), K("LeftParen"), Id("zero"), K("LeftParen"),
           K("RightParen"), K("Comma"), Id("add"), K("LeftParen"), Num("1"),
           K("Comma"), Num(NatToString(k)), K("RightParen"), K("RightParen"),
           K("Semicolon")>>
    >>)

(* A function of arity 1 called with k arguments.
     fun f(a) { return a; }
     print "before";
     print f(1, ..., 1);
     print "after";
*)
ArityProgram(k) ==
    Source(<<
        <<K("Fun"), Id("f"), K("LeftParen"), Id("a"), K("RightParen"),
           K("LeftBrace"), K("Return"), Id("a"), K("Semicolon"),
           K("RightBrace")>>,
        <<K("Print"), Str("before"), K("Semicolon")>>,
        <<K("Print"), Id("f"), K("LeftParen")>>
        \o
        ArgumentTokens(k)
        \o
        <<K("RightParen"), K("Semicolon")>>,
        <<K("Print"), Str("after"), K("Semicolon")>>
    >>)

(* Initializers ending in a bare return and falling off the end.
     class A { init(x) { this.x = x; return; } }
     class B { init(x) { this.x = x; } }
     class C { init() { if (true) return; print "unreachable"; } }
     var a = A(k); print a; print a.x;
     var b = B(k); print b; print b.x;
     print C();
     print a.init(8); print a.x;
*)
InitProgram(k) ==
    Source(<<
        <<K("Class"), Id("A"), K("LeftBrace"), Id("init"), K("LeftParen"),
           Id("x"), K("RightParen"), K("LeftBrace"), K("This"), K("Dot"),
           Id("x"), K("Equal"), Id("x"), K("Semicolon"), K("Return"),
           K("Semicolon"), K("RightBrace"), K("RightBrace")>>,
        <<K("Class"), Id("B"), K("LeftBrace"), Id("init"), K("LeftParen"),
           Id("x"), K("RightParen"), K("LeftBrace"), K("This"), K("Dot"),
           Id("x"), K("Equal"), Id("x"), K("Semicolon"), K("RightBrace"),
           K("RightBrace")>>,
        <<K("Class"), Id("C"), K("LeftBrace"), Id("init"), K("LeftParen"),
           K("RightParen"), K("LeftBrace"), K("If"), K("LeftParen"),
           K("True"), K("RightParen"), K("Return"), K("Semicolon"),
           K("Print"), Str("unreachable"), K("Semicolon"), K("RightBrace"),
           K("RightBrace")>>,
        <<K("Var"), Id("a"), K("Equal"), Id("A"), K("LeftParen"),
           Num(NatToString(k)), K("RightParen"), K("Semicolon"), K("Print"),
           Id("a"), K("Semicolon"), K("Print"), Id("a"), K("Dot"), Id("x"),
           K("Semicolon")>>,
        <<K("Var"), Id("b"), K("Equal"), Id("B"), K("LeftParen"),
           Num(NatToString(k)), K("RightParen"), K("Semicolon"), K("Print"),
           Id("b"), K("Semicolon"), K("Print"), Id("b"), K("Dot"), Id("x"),
           K("Semicolon")>>,
        <<K("Print"), Id("C"), K("LeftParen"), K("RightParen"),
           K("Semicolon")>>,
        <<K("Print"), Id("a"), K("Dot"), Id("init"), K("LeftParen"),
           Num("8"), K("RightParen"), K("Semicolon"), K("Print"), Id("a"),
           K("Dot"), Id("x"), K("Semicolon")>>
    >>)

(* A class without init called with k arguments.
     class C { m() { return 1; } }
     print "before";
     print C(1, ..., 1);
     print "after";
*)
NoInitProgram(k) ==
    Source(<<
        <<K("Class"), Id("C"), K("LeftBrace"), Id("m"), K("LeftParen"),
           K("RightParen"), K("LeftBrace"), K("Return"), Num("1"),
           K("Semicolon"), K("RightBrace"), K("RightBrace")>>,
        <<K("Print"), Str("before"), K("Semicolon")>>,
        <<K("Print"), Id("C"), K("LeftParen")>>
        \o
        ArgumentTokens(k)
        \o
        <<K("RightParen"), K("Semicolon")>>,
        <<K("Print"), Str("after"), K("Semicolon")>>
    >>)

(* A class whose init takes one parameter called with k arguments.
     class D { init(x) { this.x = x; } }
     print "before";
     print D(1, ..., 1).x;
     print "after";
*)
InitArityProgram(k) ==
    Source(<<
        <<K("Class"), Id("D"), K("LeftBrace"), Id("init"), K("LeftParen"),
           Id("x"), K("RightParen"), K("LeftBrace"), K("This"), K("Dot"),
           Id("x"), K("Equal"), Id("x"), K("Semicolon"), K("RightBrace"),
           K("RightBrace")>>,
        <<K("Print"), Str("before"), K("Semicolon")>>,
        <<K("Print"), Id("D"), K("LeftParen")>>
        \o
        ArgumentTokens(k)
        \o
        <<K("RightParen"), K("Dot"), Id("x"), K("Semicolon")>>,
        <<K("Print"), Str("after"), K("Semicolon")>>
    >>)

(* A subclass overriding one method and inheriting another.
     class T { m() { return "Tm"; } n() { return "Tn"; } }
     class S < T { m() { return "Sm"; } o() { return "So"; } }
     var s = S(); print s.m(); print s.n(); print s.o();
     var t = T(); print t.m(); print t.n();
     print s.n == s.n;
     t.o();
*)
InheritProgram ==
    Source(<<
        <<K("Class"), Id("T"), K("LeftBrace"), Id("m"), K("LeftParen"),
           K("RightParen"), K("LeftBrace"), K("Return"), Str("Tm"),
           K("Semicolon"), K("RightBrace"), Id("n"), K("LeftParen"),
           K("RightParen"), K("LeftBrace"), K("Return"), Str("Tn"),
           K("Semicolon"), K("RightBrace"), K("RightBrace")>>,
        <<K("Class"), Id("S"), K("Less"), Id("T"), K("LeftBrace"), Id("m"),
           K("LeftParen"), K("RightParen"), K("LeftBrace"), K("Return"),
           Str("Sm"), K("Semicolon"), K("RightBrace"), Id("o"),
           K("LeftParen"), K("RightParen"), K("LeftBrace"), K("Return"),
           Str("So"), K("Semicolon"), K("RightBrace"), K("RightBrace")>>,
        <<K("Var"), Id("s"), K("Equal"), Id("S"), K("LeftParen"),
           K("RightParen"), K("Semicolon"), K("Print"), Id("s"), K("Dot"),
           Id("m"), K("LeftParen"), K("RightParen"), K("Semicolon"),
           K("Print"), Id("s"), K("Dot"), Id("n"), K("LeftParen"),
           K("RightParen"), K("Semicolon"), K("Print"), Id("s"), K("Dot"),
           Id("o"), K("LeftParen"), K("RightParen"), K("Semicolon")>>,
        <<K("Var"), Id("t"), K("Equal"), Id("T"), K("LeftParen"),
           K("RightParen"), K("Semicolon"), K("Print"), Id("t"), K("Dot"),
           Id("m"), K("LeftParen"), K("RightParen"), K("Semicolon"),
           K("Print"), Id("t"), K("Dot"), Id("n"), K("LeftParen"),
           K("RightParen"), K("Semicolon")>>,
        <<K("Print"), Id("s"), K("Dot"), Id("n"), K("EqualEqual"), Id("s"),
           K("Dot"), Id("n"), K("Semicolon")>>,
        <<Id("t"), K("Dot"), Id("o"), K("LeftParen"), K("RightParen"),
           K("Semicolon")>>
    >>)

(* A method calling the method its class inherits through two superclasses.
     class A { m() { print "A"; } }
     class B < A { }
     class C < B { m() { super.m(); print "C"; } }
     C().m();
*)
SuperProgram ==
    Source(<<
        <<K("Class"), Id("A"), K("LeftBrace"), Id("m"), K("LeftParen"),
           K("RightParen"), K("LeftBrace"), K("Print"), Str("A"),
           K("Semicolon"), K("RightBrace"), K("RightBrace")>>,
        <<K("Class"), Id("B"), K("Less"), Id("A"), K("LeftBrace"),
           K("RightBrace")>>,
        <<K("Class"), Id("C"), K("Less"), Id("B"), K("LeftBrace"), Id("m"),
           K("LeftParen"), K("RightParen"), K("LeftBrace"), K("Super"),
           K("Dot"), Id("m"), K("LeftParen"), K("RightParen"),
           K("Semicolon"), K("Print"), Str("C"), K("Semicolon"),
           K("RightBrace"), K("RightBrace")>>,
        <<Id("C"), K("LeftParen"), K("RightParen"), K("Dot"), Id("m"),
           K("LeftParen"), K("RightParen"), K("Semicolon")>>
    >>)

(* A method taken as a value keeps its receiver.
     class P { init(n) { this.n = n; } get() { return this.n; } add(d) { return this.n + d; } }
     var p = P(1); var q = P(2);
     var m = p.get; var a = p.add;
     print m(); print a(k);
     p.n = 3; print m();
     q.get = m; print q.get();
     q.add = a; print q.add(k);
     print m;
*)
BoundProgram(k) ==
    Source(<<
        <<K("Class"), Id("P"), K("LeftBrace"), Id("init"), K("LeftParen"),
           Id("n"), K("RightParen"), K("LeftBrace"), K("This"), K("Dot"),
           Id("n"), K("Equal"), Id("n"), K("Semicolon"), K("RightBrace"),
           Id("get"), K("LeftParen"), K("RightParen"), K("LeftBrace"),
           K("Return"), K("This"), K("Dot"), Id("n"), K("Semicolon"),
           K("RightBrace"), Id("add"), K("LeftParen"), Id("d"),
           K("RightParen"), K("LeftBrace"), K("Return"), K("This"), K("Dot"),
           Id("n"), K("Plus"), Id("d"), K("Semicolon"), K("RightBrace"),
           K("RightBrace")>>,
        <<K("Var"), Id("p"), K("Equal"), Id("P"), K("LeftParen"), Num("1"),
           K("RightParen"), K("Semicolon"), K("Var"), Id("q"), K("Equal"),
           Id("P"), K("LeftParen"), Num("2"), K("RightParen"), K("Semicolon")>>,
        <<K("Var"), Id("m"), K("Equal"), Id("p"), K("Dot"), Id("get"),
           K("Semicolon"), K("Var"), Id("a"), K("Equal"), Id("p"), K("Dot"),
           Id("add"), K("Semicolon")>>,
        <<K("Print"), Id("m"), K("LeftParen"), K("RightParen"),
           K("Semicolon"), K("Print"), Id("a"), K("LeftParen"),
           Num(NatToString(k)), K("RightParen"), K("Semicolon")>>,
        <<Id("p"), K("Dot"), Id("n"), K("Equal"), Num("3"), K("Semicolon"),
           K("Print"), Id("m"), K("LeftParen"), K("RightParen"),
           K("Semicolon")>>,
        <<Id("q"), K("Dot"), Id("get"), K("Equal"), Id("m"), K("Semicolon"),
           K("Print"), Id("q"), K("Dot"), Id("get"), K("LeftParen"),
           K("RightParen"), K("Semicolon")>>,
        <<Id("q"), K("Dot"), Id("add"), K("Equal"), Id("a"), K("Semicolon"),
           K("Print"), Id("q"), K("Dot"), Id("add"), K("LeftParen"),
           Num(NatToString(k)), K("RightParen"), K("Semicolon")>>,
        <<K("Print"), Id("m"), K("Semicolon")>>
    >>)

(* A for loop whose clauses and body print when they run.
     fun init() { print "init"; return 0; }
     fun cond(i) { print "cond"; return i < k; }
     fun incr(i) { print "incr"; return i + 1; }
     for (var i = init(); cond(i); i = incr(i)) { print "body"; }
     print "end";
*)
ForProgram(k) ==
    Source(<<
        <<K("Fun"), Id("init"), K("LeftParen"), K("RightParen"),
           K("LeftBrace"), K("Print"), Str("init"), K("Semicolon"),
           K("Return"), Num("0"), K("Semicolon"), K("RightBrace")>>,
        <<K("Fun"), Id("cond"), K("LeftParen"), Id("i"), K("RightParen"),
           K("LeftBrace"), K("Print"), Str("cond"), K("Semicolon"),
           K("Return"), Id("i"), K("Less"), Num(NatToString(k)),
           K("Semicolon"), K("RightBrace")>>,
        <<K("Fun"), Id("incr"), K("LeftParen"), Id("i"), K("RightParen"),
           K("LeftBrace"), K("Print"), Str("incr"), K("Semicolon"),
           K("Return"), Id("i"), K("Plus"), Num("1"), K("Semicolon"),
           K("RightBrace")>>,
        <<K("For"), K("LeftParen"), K("Var"), Id("i"), K("Equal"),
           Id("init"), K("LeftParen"), K("RightParen"), K("Semicolon"),
           Id("cond"), K("LeftParen"), Id("i"), K("RightParen"),
           K("Semicolon"), Id("i"), K("Equal"), Id("incr"), K("LeftParen"),
           Id("i"), K("RightParen"), K("RightParen"), K("LeftBrace"),
           K("Print"), Str("body"), K("Semicolon"), K("RightBrace")>>,
        <<K("Print"), Str("end"), K("Semicolon")>>
    >>)

(* For loops without initializer and without increment.
     var i = 0;
     for (; i < k;) { print i; i = i + 1; }
     for (var j = k; j > 0; j = j - 1) print j;
     for (i = 0; i != k; i = i + 1) { var c = i; print c; }
     print "end";
*)
ForBareProgram(k) ==
    Source(<<
        <<K("Var"), Id("i"), K("Equal"), Num("0"), K("Semicolon")>>,
        <<K("For"), K("LeftParen"), K("Semicolon"), Id("i"), K("Less"),
           Num(NatToString(k)), K("Semicolon"), K("RightParen"),
           K("LeftBrace"), K("Print"), Id("i"), K("Semicolon"), Id("i"),
           K("Equal"), Id("i"), K("Plus"), Num("1"), K("Semicolon"),
           K("RightBrace")>>,
        <<K("For"), K("LeftParen"), K("Var"), Id("j"), K("Equal"),
           Num(NatToString(k)), K("Semicolon"), Id("j"), K("Greater"),
           Num("0"), K("Semicolon"), Id("j"), K("Equal"), Id("j"),
           K("Minus"), Num("1"), K("RightParen"), K("Print"), Id("j"),
           K("Semicolon")>>,
        <<K("For"), K("LeftParen"), Id("i"), K("Equal"), Num("0"),
           K("Semicolon"), Id("i"), K("BangEqual"), Num(NatToString(k)),
           K("Semicolon"), Id("i"), K("Equal"), Id("i"), K("Plus"), Num("1"),
           K("RightParen"), K("LeftBrace"), K("Var"), Id("c"), K("Equal"),
           Id("i"), K("Semicolon"), K("Print"), Id("c"), K("Semicolon"),
           K("RightBrace")>>,
        <<K("Print"), Str("end"), K("Semicolon")>>
    >>)

(* Prints followed by a runtime error inside a call.
     fun f(n) { print "in f"; return n + nil; }
     var i = 0;
     while (i < k) { print i; i = i + 1; }
     print "before";
     f(1);
     print "after";
*)
ErrorProgram(k) ==
    Source(<<
        <<K("Fun"), Id("f"), K("LeftParen"), Id("n"), K("RightParen"),
           K("LeftBrace"), K("Print"), Str("in f"), K("Semicolon"),
           K("Return"), Id("n"), K("Plus"), K("Nil"), K("Semicolon"),
           K("RightBrace")>>,
        <<K("Var"), Id("i"), K("Equal"), Num("0"), K("Semicolon")>>,
        <<K("While"), K("LeftParen"), Id("i"), K("Less"),
           Num(NatToString(k)), K("RightParen"), K("LeftBrace"), K("Print"),
           Id("i"), K("Semicolon"), Id("i"), K("Equal"), Id("i"), K("Plus"),
           Num("1"), K("Semicolon"), K("RightBrace")>>,
        <<K("Print"), Str("before"), K("Semicolon")>>,
        <<Id("f"), K("LeftParen"), Num("1"), K("RightParen"), K("Semicolon")>>,
        <<K("Print"), Str("after"), K("Semicolon")>>
    >>)

(* Arithmetic, comparison, logic, globals and the native function.
     print -(6 / 2) * 2 - 1;
     print !(1 > 2) == true;
     print 1 < 2 and false or "x";
     print nil or 1 >= 2;
     var g = 1; g = g + 1;
     if (g <= 2) print "y"; else print "n";
     if (g != 2) print "y"; else print "n";
     print "a" + "b";
     print clock() >= 0;
     print clock;
     h = 1;
*)
ArithProgram ==
    Source(<<
        <<K("Print"), K("Minus"), K("LeftParen"), Num("6"), K("Slash"),
           Num("2"), K("RightParen"), K("Star"), Num("2"), K("Minus"),
           Num("1"), K("Semicolon")>>,
        <<K("Print"), K("Bang"), K("LeftParen"), Num("1"), K("Greater"),
           Num("2"), K("RightParen"), K("EqualEqual"), K("True"),
           K("Semicolon")>>,
        <<K("Print"), Num("1"), K("Less"), Num("2"), K("And"), K("False"),
           K("Or"), Str("x"), K("Semicolon")>>,
        <<K("Print"), K("Nil"), K("Or"), Num("1"), K("GreaterEqual"),
           Num("2"), K("Semicolon")>>,
        <<K("Var"), Id("g"), K("Equal"), Num("1"), K("Semicolon"), Id("g"),
           K("Equal"), Id("g"), K("Plus"), Num("1"), K("Semicolon")>>,
        <<K("If"), K("LeftParen"), Id("g"), K("LessEqual"), Num("2"),
           K("RightParen"), K("Print"), Str("y"), K("Semicolon"), K("Else"),
           K("Print"), Str("n"), K("Semicolon")>>,
        <<K("If"), K("LeftParen"), Id("g"), K("BangEqual"), Num("2"),
           K("RightParen"), K("Print"), Str("y"), K("Semicolon"), K("Else"),
           K("Print"), Str("n"), K("Semicolon")>>,
        <<K("Print"), Str("a"), K("Plus"), Str("b"), K("Semicolon")>>,
        <<K("Print"), Id("clock"), K("LeftParen"), K("RightParen"),
           K("GreaterEqual"), Num("0"), K("Semicolon")>>,
        <<K("Print"), Id("clock"), K("Semicolon")>>,
        <<Id("h"), K("Equal"), Num("1"), K("Semicolon")>>
    >>)


(* A syntax error between two statements: the call lacks its ')'.
     print "before";
     clock(1, ..., 1;       k arguments
     print "after";
*)
SyntaxProgram(k) ==
    Source(<<
        <<K("Print"), Str("before"), K("Semicolon")>>,
        <<Id("clock"), K("LeftParen")>> \o ArgumentTokens(k) \o <<K("Semicolon")>>,
        <<K("Print"), Str("after"), K("Semicolon")>>
    >>)

(* Globals that are defined and globals that are not.
     var g = 1;
     g = 2; print g;
     print u;             k = 0
     u = 3;               k = 1
     print g = k;         otherwise
     print "after";
*)
GlobalProgram(k) ==
    Source(<<
        <<K("Var"), Id("g"), K("Equal"), Num("1"), K("Semicolon")>>,
        <<Id("g"), K("Equal"), Num("2"), K("Semicolon"), K("Print"), Id("g"),
           K("Semicolon")>>,
        IF k = 0 THEN <<K("Print"), Id("u"), K("Semicolon")>>
        ELSE IF k = 1 THEN <<Id("u"), K("Equal"), Num("3"), K("Semicolon")>>
        ELSE <<K("Print"), Id("g"), K("Equal"), Num(NatToString(k)), K("Semicolon")>>,
        <<K("Print"), Str("after"), K("Semicolon")>>
    >>)

(* Closures over the two locals of one block:
     {
       var a; var b;
       fun f1() { READS }               or  fun f1() { fun inner() { READS } }
       f1();                            for a closure that is called
       ...
     }
   READS is a sequence of expression statements  NAME;  over a and b.
*)
\* The most closures of a program.
MaxClosures == 2

ClosureReads == {<<>>, <<"a">>, <<"a", "b">>, <<"b", "a", "b">>}

ClosureItems == [reads : ClosureReads, inner : BOOLEAN, called : BOOLEAN]

ReadTokens(reads) ==
    IF reads = <<>> THEN <<>>
    ELSE IF Len(reads) = 1 THEN <<Id(reads[1]), K("Semicolon")>>
    ELSE IF Len(reads) = 2
    THEN <<Id(reads[1]), K("Semicolon"), Id(reads[2]), K("Semicolon")>>
    ELSE <<Id(reads[1]), K("Semicolon"), Id(reads[2]), K("Semicolon"),
           Id(reads[3]), K("Semicolon")>>

ClosureName(i) == "f" \o NatToString(i)

ClosureTokens(item, i) ==
    <<K("Fun"), Id(ClosureName(i)), K("LeftParen"), K("RightParen"), K("LeftBrace")>>
    \o (IF item.inner
        THEN <<K("Fun"), Id("inner"), K("LeftParen"), K("RightParen"), K("LeftBrace")>>
             \o ReadTokens(item.reads) \o <<K("RightBrace")>>
        ELSE ReadTokens(item.reads))
    \o <<K("RightBrace")>>
    \o (IF item.called
        THEN <<Id(ClosureName(i)), K("LeftParen"), K("RightParen"), K("Semicolon")>>
        ELSE <<>>)

RECURSIVE ClosuresTokens(_, _)
ClosuresTokens(items, i) ==
    IF i > Len(items) THEN <<>>
    ELSE ClosureTokens(items[i], i) \o ClosuresTokens(items, i + 1)

ClosureProgram(items) ==
    Source(<< <<K("LeftBrace"), K("Var"), Id("a"), K("Semicolon"),
                K("Var"), Id("b"), K("Semicolon")>>
              \o ClosuresTokens(items, 1) \o <<K("RightBrace")>> >>)

(* A call of a property of an instance, written as  x.m(ARGS)  and as
   (x.m)(ARGS):
     class A { m(p) { print this.tag; print p; } }
     fun g(p) { print "g"; print p; }
     class B {}
     var x = A(); x.tag = "x";
     var y = A(); y.tag = "y";
     x.m = g;              or  x.m = 3;  or  x.m = B;  or  x.m = y.m;  or nothing
     x.m(1, 1);            or  (x.m)(1, 1);  with x.n for the property no one has
     print "after";
*)
\* The most arguments of the call.
MaxInvokeArgs == 2

InvokeScenarios == {"method", "closure", "number", "class", "bound", "undefined"}

InvokeVariants == {"invoke", "property"}

\* The name of the property that is called.
InvokedName(scenario) == IF scenario = "undefined" THEN "n" ELSE "m"

InvokeSetup(scenario) ==
    CASE scenario = "closure" ->
             <<Id("x"), K("Dot"), Id("m"), K("Equal"), Id("g"), K("Semicolon")>>
      [] scenario = "number" ->
             <<Id("x"), K("Dot"), Id("m"), K("Equal"), Num("3"), K("Semicolon")>>
      [] scenario = "class" ->
             <<Id("x"), K("Dot"), Id("m"), K("Equal"), Id("B"), K("Semicolon")>>
      [] scenario = "bound" ->
             <<Id("x"), K("Dot"), Id("m"), K("Equal"), Id("y"), K("Dot"), Id("m"),
               K("Semicolon")>>
      [] OTHER -> <<>>

InvokeCall(input) ==
    (IF input.variant = "invoke"
     THEN <<Id("x"), K("Dot"), Id(InvokedName(input.scenario))>>
     ELSE <<K("LeftParen"), Id("x"), K("Dot"), Id(InvokedName(input.scenario)),
            K("RightParen")>>)
    \o <<K("LeftParen")>> \o ArgumentTokens(input.args)
    \o <<K("RightParen"), K("Semicolon")>>

InvokeProgram(input) ==
    Source(<<
        <<K("Class"), Id("A"), K("LeftBrace"), Id("m"), K("LeftParen"), Id("p"),
           K("RightParen"), K("LeftBrace"), K("Print"), K("This"), K("Dot"),
           Id("tag"), K("Semicolon"), K("Print"), Id("p"), K("Semicolon"),
           K("RightBrace"), K("RightBrace")>>,
        <<K("Fun"), Id("g"), K("LeftParen"), Id("p"), K("RightParen"),
           K("LeftBrace"), K("Print"), Str("g"), K("Semicolon"), K("Print"),
           Id("p"), K("Semicolon"), K("RightBrace")>>,
        <<K("Class"), Id("B"), K("LeftBrace"), K("RightBrace")>>,
        <<K("Var"), Id("x"), K("Equal"), Id("A"), K("LeftParen"), K("RightParen"),
           K("Semicolon"), Id("x"), K("Dot"), Id("tag"), K("Equal"), Str("x"),
           K("Semicolon")>>,
        <<K("Var"), Id("y"), K("Equal"), Id("A"), K("LeftParen"), K("RightParen"),
           K("Semicolon"), Id("y"), K("Dot"), Id("tag"), K("Equal"), Str("y"),
           K("Semicolon")>>,
        InvokeSetup(input.scenario),
        InvokeCall(input),
        <<K("Print"), Str("after"), K("Semicolon")>>
    >>)

(* Control flow, a statement on each line, over every choice of the values
   c, d and e of the conditions:
     var v = c; var w = d;
     if (v) print "t";                             or with  else print "e";
     while (v) { print v; v = w; w = nil; }
     for (var i = c; i; i = w) { print i; w = nil; }
     for (; v; ) { print v; v = w; w = nil; }
     for (v = c; v; v = w) w = nil;
     while (v) { if (w) print "t"; else print "e"; v = w; w = nil; }
     if (v and w) print "t"; else print "e";       likewise with or
     print c and d;   print c or d;   print c and d or e;  and so on
     print "end";
*)
FlowValues == {"true", "false", "nil", "zero"}

FlowForms == {"if", "ifelse", "while", "for", "forbare", "forexpr", "nested",
              "ifand", "ifor"}

LogicOperators == {"and", "or"}

ValueToken(c) ==
    CASE c = "true" -> K("True")
      [] c = "false" -> K("False")
      [] c = "nil" -> K("Nil")
      [] c = "zero" -> Num("0")

\* v = w; w = nil;  a loop whose condition is v ends after two passes.
NextPass ==
    <<Id("v"), K("Equal"), Id("w"), K("Semicolon"),
      Id("w"), K("Equal"), K("Nil"), K("Semicolon")>>

PrintTokens(token) == <<K("Print"), token, K("Semicolon")>>

FlowStatement(form) ==
    CASE form = "if" ->
             <<K("If"), K("LeftParen"), Id("v"), K("RightParen")>>
             \o PrintTokens(Str("t"))
      [] form = "ifelse" ->
             <<K("If"), K("LeftParen"), Id("v"), K("RightParen")>>
             \o PrintTokens(Str("t")) \o <<K("Else")>> \o PrintTokens(Str("e"))
      [] form = "while" ->
             <<K("While"), K("LeftParen"), Id("v"), K("RightParen"), K("LeftBrace")>>
             \o PrintTokens(Id("v")) \o NextPass \o <<K("RightBrace")>>
      [] form = "for" ->
             <<K("For"), K("LeftParen"), K("Var"), Id("i"), K("Equal"), Id("v"),
               K("Semicolon"), Id("i"), K("Semicolon"), Id("i"), K("Equal"), Id("w"),
               K("RightParen"), K("LeftBrace")>>
             \o PrintTokens(Id("i"))
             \o <<Id("w"), K("Equal"), K("Nil"), K("Semicolon"), K("RightBrace")>>
      [] form = "forbare" ->
             <<K("For"), K("LeftParen"), K("Semicolon"), Id("v"), K("Semicolon"),
               K("RightParen"), K("LeftBrace")>>
             \o PrintTokens(Id("v")) \o NextPass \o <<K("RightBrace")>>
      [] form = "forexpr" ->
             <<K("For"), K("LeftParen"), Id("v"), K("Equal"), Id("v"), K("Semicolon"),
               Id("v"), K("Semicolon"), Id("v"), K("Equal"), Id("w"), K("RightParen"),
               Id("w"), K("Equal"), K("Nil"), K("Semicolon")>>
      [] form = "nested" ->
             <<K("While"), K("LeftParen"), Id("v"), K("RightParen"), K("LeftBrace"),
               K("If"), K("LeftParen"), Id("w"), K("RightParen")>>
             \o PrintTokens(Str("t")) \o <<K("Else")>> \o PrintTokens(Str("e"))
             \o NextPass \o <<K("RightBrace")>>
      [] form = "ifand" ->
             <<K("If"), K("LeftParen"), Id("v"), K("And"), Id("w"), K("RightParen")>>
             \o PrintTokens(Str("t")) \o <<K("Else")>> \o PrintTokens(Str("e"))
      [] form = "ifor" ->
             <<K("If"), K("LeftParen"), Id("v"), K("Or"), Id("w"), K("RightParen")>>
             \o PrintTokens(Str("t")) \o <<K("Else")>> \o PrintTokens(Str("e"))

LogicToken(op) == IF op = "and" THEN K("And") ELSE K("Or")

\* print c op d op ... ;  the operands and the operators in turn.
LogicStatement(operands, operators) ==
    <<K("Print")>>
    \o [i \in 1..(2 * Len(operands) - 1) |->
           IF i % 2 = 1 THEN ValueToken(operands[(i + 1) \div 2])
           ELSE LogicToken(operators[i \div 2])]
    \o <<K("Semicolon")>>

\* The lines of the program, a statement each.
FlowLines(input) ==
    IF input.form = "logic"
    THEN <<LogicStatement(input.operands, input.operators),
           PrintTokens(Str("end"))>>
    ELSE <<<<K("Var"), Id("v"), K("Equal"), ValueToken(input.c), K("Semicolon")>>,
           <<K("Var"), Id("w"), K("Equal"), ValueToken(input.d), K("Semicolon")>>,
           FlowStatement(input.form),
           PrintTokens(Str("end"))>>

FlowProgram(input) == Source(FlowLines(input))

(* A call of every kind of value, with k arguments, from the script or from
   a function:
     fun f(a) { print a; }
     fun g() { print "g"; }
     class B {}
     var x = f;            or  g, clock, B, 3, "s", nil, true, B()
     x(1, ..., 1); print "after";      or  fun run() { x(1, ..., 1); print "after"; }
                                           run();
*)
\* The most arguments of the call.
MaxCallArgs == 2

Callees == {"f", "g", "clock", "B", "number", "string", "nil", "true", "instance"}

CallPlaces == {"script", "function"}

CalleeTokens(callee) ==
    CASE callee = "number" -> <<Num("3")>>
      [] callee = "string" -> <<Str("s")>>
      [] callee = "nil" -> <<K("Nil")>>
      [] callee = "true" -> <<K("True")>>
      [] callee = "instance" -> <<Id("B"), K("LeftParen"), K("RightParen")>>
      [] OTHER -> <<Id(callee)>>

CalleeCall(k) ==
    <<Id("x"), K("LeftParen")>> \o ArgumentTokens(k)
    \o <<K("RightParen"), K("Semicolon")>>

CalleeProgram(input) ==
    Source(<<
        <<K("Fun"), Id("f"), K("LeftParen"), Id("a"), K("RightParen"), K("LeftBrace"),
           K("Print"), Id("a"), K("Semicolon"), K("RightBrace")>>,
        <<K("Fun"), Id("g"), K("LeftParen"), K("RightParen"), K("LeftBrace"),
           K("Print"), Str("g"), K("Semicolon"), K("RightBrace")>>,
        <<K("Class"), Id("B"), K("LeftBrace"), K("RightBrace")>>,
        <<K("Var"), Id("x"), K("Equal")>> \o CalleeTokens(input.callee)
            \o <<K("Semicolon")>>,
        IF input.place = "script"
        THEN CalleeCall(input.args)
        ELSE <<K("Fun"), Id("run"), K("LeftParen"), K("RightParen"), K("LeftBrace")>>
             \o CalleeCall(input.args)
             \o <<K("Print"), Str("after"), K("Semicolon"), K("RightBrace")>>,
        IF input.place = "script"
        THEN <<K("Print"), Str("after"), K("Semicolon")>>
        ELSE <<Id("run"), K("LeftParen"), K("RightParen"), K("Semicolon")>>
    >>)

(* Recursion without an end.
     fun r() { r(); }
     r();
*)
RecursionProgram ==
    Source(<<
        <<K("Fun"), Id("r"), K("LeftParen"), K("RightParen"), K("LeftBrace"),
           Id("r"), K("LeftParen"), K("RightParen"), K("Semicolon"), K("RightBrace")>>,
        <<Id("r"), K("LeftParen"), K("RightParen"), K("Semicolon")>>
    >>)

(* Statements of every kind, one on a line, at the top level, in a block or
   in the body of a function:
     class A {}
     var v = 0;            or  { var v = 0;   or  fun h() { var v = 0;
     STATEMENT             the i-th of them one of
         1 + 2;
         print v;
         var ai = 1;
         { var t = 1; print t; }
         { var t = 1; fun u() { return t; } print u(); }
         if (v) print 1; else print 2;
         while (false) print 1;
         for (var j = 0; j < 1; j = j + 1) print j;
         fun fi() { return v; }
         class Ci { m() { return 1; } }
         class Di < A { m() { return 1; } }
     ...
                           or  }              or  }
                                              and then  h();
     print "end";
*)
\* The most statements of a program.
MaxSequence == 2

StatementKinds == {"expression", "print", "var", "block", "capture", "if", "while",
                   "for", "fun", "class", "subclass"}

\* The kinds that declare a variable.
DeclaringKinds == {"var", "fun", "class", "subclass"}

SequencePlaces == {"script", "block", "function"}

MethodTokens ==
    <<K("LeftBrace"), Id("m"), K("LeftParen"), K("RightParen"), K("LeftBrace"),
      K("Return"), Num("1"), K("Semicolon"), K("RightBrace"), K("RightBrace")>>

KindTokens(kind, i) ==
    CASE kind = "expression" -> <<Num("1"), K("Plus"), Num("2"), K("Semicolon")>>
      [] kind = "print" -> <<K("Print"), Id("v"), K("Semicolon")>>
      [] kind = "var" ->
             <<K("Var"), Id("a" \o NatToString(i)), K("Equal"), Num("1"),
               K("Semicolon")>>
      [] kind = "block" ->
             <<K("LeftBrace"), K("Var"), Id("t"), K("Equal"), Num("1"), K("Semicolon"),
               K("Print"), Id("t"), K("Semicolon"), K("RightBrace")>>
      [] kind = "capture" ->
             <<K("LeftBrace"), K("Var"), Id("t"), K("Equal"), Num("1"), K("Semicolon"),
               K("Fun"), Id("u"), K("LeftParen"), K("RightParen"), K("LeftBrace"),
               K("Return"), Id("t"), K("Semicolon"), K("RightBrace"),
               K("Print"), Id("u"), K("LeftParen"), K("RightParen"), K("Semicolon"),
               K("RightBrace")>>
      [] kind = "if" ->
             <<K("If"), K("LeftParen"), Id("v"), K("RightParen"), K("Print"), Num("1"),
               K("Semicolon"), K("Else"), K("Print"), Num("2"), K("Semicolon")>>
      [] kind = "while" ->
             <<K("While"), K("LeftParen"), K("False"), K("RightParen"), K("Print"),
               Num("1"), K("Semicolon")>>
      [] kind = "for" ->
             <<K("For"), K("LeftParen"), K("Var"), Id("j"), K("Equal"), Num("0"),
               K("Semicolon"), Id("j"), K("Less"), Num("1"), K("Semicolon"),
               Id("j"), K("Equal"), Id("j"), K("Plus"), Num("1"), K("RightParen"),
               K("Print"), Id("j"), K("Semicolon")>>
      [] kind = "fun" ->
             <<K("Fun"), Id("f" \o NatToString(i)), K("LeftParen"), K("RightParen"),
               K("LeftBrace"), K("Return"), Id("v"), K("Semicolon"), K("RightBrace")>>
      [] kind = "class" ->
             <<K("Class"), Id("C" \o NatToString(i))>> \o MethodTokens
      [] kind = "subclass" ->
             <<K("Class"), Id("D" \o NatToString(i)), K("Less"), Id("A")>>
             \o MethodTokens

SequenceOpen(place) ==
    (CASE place = "script" -> <<>>
       [] place = "block" -> <<K("LeftBrace")>>
       [] place = "function" ->
              <<K("Fun"), Id("h"), K("LeftParen"), K("RightParen"), K("LeftBrace")>>)
    \o <<K("Var"), Id("v"), K("Equal"), Num("0"), K("Semicolon")>>

SequenceLines(input) ==
    <<<<K("Class"), Id("A"), K("LeftBrace"), K("RightBrace")>>,
      SequenceOpen(input.place)>>
    \o [i \in 1..Len(input.kinds) |-> KindTokens(input.kinds[i], i)]
    \o <<IF input.place = "script" THEN <<>> ELSE <<K("RightBrace")>>,
          IF input.place = "function"
          THEN <<Id("h"), K("LeftParen"), K("RightParen"), K("Semicolon")>>
          ELSE <<>>,
          <<K("Print"), Str("end"), K("Semicolon")>>>>

SequenceProgram(input) == Source(SequenceLines(input))

(* A runtime error while the variable of a closure is on the stack.
     fun outer() {
       var x = 1;
       fun get() { return x; }
       print get();
       return x + nil;
     }
     outer();
     print "after";
*)
OpenErrorProgram ==
    Source(<<
        <<K("Fun"), Id("outer"), K("LeftParen"), K("RightParen"), K("LeftBrace")>>,
        <<K("Var"), Id("x"), K("Equal"), Num("1"), K("Semicolon")>>,
        <<K("Fun"), Id("get"), K("LeftParen"), K("RightParen"), K("LeftBrace"),
           K("Return"), Id("x"), K("Semicolon"), K("RightBrace")>>,
        <<K("Print"), Id("get"), K("LeftParen"), K("RightParen"), K("Semicolon")>>,
        <<K("Return"), Id("x"), K("Plus"), K("Nil"), K("Semicolon")>>,
        <<K("RightBrace")>>,
        <<Id("outer"), K("LeftParen"), K("RightParen"), K("Semicolon")>>,
        <<K("Print"), Str("after"), K("Semicolon")>>
    >>)

ProgramSource(input) ==
    CASE input.id = "Shadow" -> ShadowProgram
      [] input.id = "Sequence" -> SequenceProgram(input.k)
      [] input.id = "Recursion" -> RecursionProgram
      [] input.id = "Callee" -> CalleeProgram(input.k)
      [] input.id = "Flow" -> FlowProgram(input.k)
      [] input.id = "ShadowFunction" -> ShadowFunctionProgram(input.k)
      [] input.id = "Shared" -> SharedProgram(input.k)
      [] input.id = "Block" -> BlockProgram(input.k)
      [] input.id = "Nested" -> NestedProgram(input.k)
      [] input.id = "Call" -> CallProgram(input.k)
      [] input.id = "Arity" -> ArityProgram(input.k)
      [] input.id = "Init" -> InitProgram(input.k)
      [] input.id = "NoInit" -> NoInitProgram(input.k)
      [] input.id = "InitArity" -> InitArityProgram(input.k)
      [] input.id = "Inherit" -> InheritProgram
      [] input.id = "Super" -> SuperProgram
      [] input.id = "Bound" -> BoundProgram(input.k)
      [] input.id = "For" -> ForProgram(input.k)
      [] input.id = "ForBare" -> ForBareProgram(input.k)
      [] input.id = "Error" -> ErrorProgram(input.k)
      [] input.id = "Arith" -> ArithProgram
      [] input.id = "Syntax" -> SyntaxProgram(input.k)
      [] input.id = "Global" -> GlobalProgram(input.k)
      [] input.id = "OpenError" -> OpenErrorProgram
      [] input.id = "Closures" -> ClosureProgram(input.k)
      [] input.id = "Invoke" -> InvokeProgram(input.k)

Input(id, k) == [id |-> id, k |-> k]

ClosureInputs ==
    {Input("Closures", items) :
         items \in UNION {[1..n -> ClosureItems] : n \in 1..MaxClosures}}

InvokeInputs ==
    {Input("Invoke", [scenario |-> s, variant |-> v, args |-> n]) :
         s \in InvokeScenarios, v \in InvokeVariants, n \in 0..MaxInvokeArgs}

\* The most operands of a chain of and and or.
MaxOperands == 3

FlowInputs ==
    {Input("Flow", [form |-> form, c |-> c, d |-> d]) :
         form \in FlowForms, c \in FlowValues, d \in FlowValues}
    \cup UNION {{Input("Flow", [form |-> "logic", operands |-> operands,
                                 operators |-> operators]) :
                     operands \in [1..n -> FlowValues],
                     operators \in [1..(n - 1) -> LogicOperators]} :
                 n \in 2..MaxOperands}

CallsInputs ==
    {Input("Callee", [callee |-> callee, place |-> place, args |-> args]) :
         callee \in Callees, place \in CallPlaces, args \in 0..MaxCallArgs}

SequenceInputs ==
    {Input("Sequence", [place |-> place, kinds |-> kinds]) :
         place \in SequencePlaces,
         kinds \in UNION {[1..n -> StatementKinds] : n \in 1..MaxSequence}}

ProgramInputs ==
    {Input(id, 0) : id \in {"Shadow", "Inherit", "Super", "Arith", "OpenError"}}
    \cup {Input(id, k) : id \in {"ShadowFunction", "Shared", "Block", "Nested", "Call",
                                 "Init", "Bound", "Syntax", "Global"},
                         k \in 0..MaxArg}
    \cup {Input(id, k) : id \in {"Arity", "NoInit", "InitArity"}, k \in 0..MaxArg}
    \cup {Input(id, k) : id \in {"For", "ForBare", "Error"}, k \in 0..MaxIter}

(***************************************************************************)
(* The state machine.                                                      *)
(***************************************************************************)
Init ==
    /\ prog \in ProgramInputs
    /\ functions = <<>>
    /\ diagnostics = <<>>
    /\ frames = <<>>
    /\ stack = <<>>
    /\ globals = <<>>
    /\ open_upvalues = <<>>
    /\ cells = <<>>
    /\ method_rcs = <<>>
    /\ classes = <<>>
    /\ instances = <<>>
    /\ bound_methods = <<>>
    /\ print_output = <<>>
    /\ error_output = <<>>
    /\ result = "init"
    /\ gen = <<>>
    /\ gen_next = 0
    /\ parser = <<>>
    /\ loops = <<>>
    /\ builder = <<>>
    /\ patches = <<>>
    /\ units = <<>>
    /\ table = <<>>
    /\ symbols = <<>>
    /\ scanner = <<>>
    /\ scanned = <<>>

\* run_program up to the first instruction: compile, then VM::with_write
\* pushes the script closure, calls it and defines the native clock.
\* run_program as it would be if it ran whatever the compiler built, errors
\* or not.
InterpretDespiteErrors(r) ==
    /\ functions' = r.functions
    /\ diagnostics' = r.diagnostics
    /\ IF r.panic # ""
       THEN /\ result' = "panic"
            /\ UNCHANGED <<frames, stack, gen, gen_next, globals>>
       ELSE /\ result' = "running"
            /\ frames' = << [closure |-> ClosureV(r.function, <<>>), ip |-> 0, slots |-> 0] >>
            /\ SetStack(<<>>, 0, << ClosureV(r.function, <<>>) >>)
            /\ globals' = ("clock" :> NativeV(0))

\* run_program after the compilation r: a panic or a compile error ends the
\* run; otherwise VM::interpret pushes the script closure and its frame.
Interpret(r) ==
    /\ functions' = r.functions
    /\ diagnostics' = r.diagnostics
    /\ IF r.panic # ""
       THEN /\ result' = "panic"
            /\ UNCHANGED <<frames, stack, gen, gen_next, globals>>
       ELSE IF ~r.ok
       THEN /\ result' = "compile_error"
            /\ UNCHANGED <<frames, stack, gen, gen_next, globals>>
       ELSE /\ result' = "running"
            /\ frames' = << [closure |-> ClosureV(r.function, <<>>), ip |-> 0, slots |-> 0] >>
            /\ SetStack(<<>>, 0, << ClosureV(r.function, <<>>) >>)
            /\ globals' = ("clock" :> NativeV(0))

RunProgram ==
    /\ result = "init"
    /\ Interpret(compile(ProgramSource(prog)))
    /\ UNCHANGED <<prog, upvalueVars, objectVars, print_output, error_output, unitVars>>

Next ==
    \/ RunProgram
    \/ OpReturn \/ OpPrint \/ OpPop
    \/ OpDefineGlobal \/ OpGetGlobal \/ OpSetGlobal
    \/ OpGetLocal \/ OpSetLocal \/ OpGetUpvalue \/ OpSetUpvalue
    \/ OpNegate \/ OpAdd \/ OpSubtract \/ OpMultiply \/ OpDivide
    \/ OpNot \/ OpEqual \/ OpLess \/ OpGreater
    \/ OpConstant \/ OpTrue \/ OpFalse \/ OpNil
    \/ OpJump \/ OpJumpIfFalse \/ OpLoop
    \/ OpCall \/ OpClosure \/ OpCloseUpvalue
    \/ OpClass \/ OpGetProperty \/ OpSetProperty \/ OpMethod \/ OpInvoke
    \/ OpInherit

Spec == Init /\ [][Next]_vars

(***************************************************************************)
(* The programs of closures, compiled and run: the instructions they       *)
(* reach.                                                                  *)
(***************************************************************************)
ClosureInit ==
    /\ prog \in ClosureInputs
    /\ functions = <<>>
    /\ diagnostics = <<>>
    /\ frames = <<>>
    /\ stack = <<>>
    /\ globals = <<>>
    /\ open_upvalues = <<>>
    /\ cells = <<>>
    /\ method_rcs = <<>>
    /\ classes = <<>>
    /\ instances = <<>>
    /\ bound_methods = <<>>
    /\ print_output = <<>>
    /\ error_output = <<>>
    /\ result = "init"
    /\ gen = <<>>
    /\ gen_next = 0
    /\ parser = <<>>
    /\ loops = <<>>
    /\ builder = <<>>
    /\ patches = <<>>
    /\ units = <<>>
    /\ table = <<>>
    /\ symbols = <<>>
    /\ scanner = <<>>
    /\ scanned = <<>>

ClosureNext ==
    \/ RunProgram
    \/ OpNil \/ OpClosure \/ OpGetLocal \/ OpCall \/ OpGetUpvalue
    \/ OpPop \/ OpCloseUpvalue \/ OpReturn

ClosureSpec == ClosureInit /\ [][ClosureNext]_vars

(***************************************************************************)
(* The programs that call a property, compiled and run.                    *)
(***************************************************************************)
InvokeInit ==
    /\ prog \in InvokeInputs
    /\ functions = <<>>
    /\ diagnostics = <<>>
    /\ frames = <<>>
    /\ stack = <<>>
    /\ globals = <<>>
    /\ open_upvalues = <<>>
    /\ cells = <<>>
    /\ method_rcs = <<>>
    /\ classes = <<>>
    /\ instances = <<>>
    /\ bound_methods = <<>>
    /\ print_output = <<>>
    /\ error_output = <<>>
    /\ result = "init"
    /\ gen = <<>>
    /\ gen_next = 0
    /\ parser = <<>>
    /\ loops = <<>>
    /\ builder = <<>>
    /\ patches = <<>>
    /\ units = <<>>
    /\ table = <<>>
    /\ symbols = <<>>
    /\ scanner = <<>>
    /\ scanned = <<>>

InvokeNext ==
    \/ RunProgram
    \/ OpClass \/ OpMethod \/ OpClosure \/ OpDefineGlobal \/ OpGetGlobal
    \/ OpConstant \/ OpNil \/ OpPop \/ OpPrint \/ OpGetLocal \/ OpReturn
    \/ OpSetProperty \/ OpGetProperty \/ OpCall \/ OpInvoke

InvokeSpec == InvokeInit /\ [][InvokeNext]_vars

(***************************************************************************)
(* The programs of control flow, compiled and run.                         *)
(***************************************************************************)
FlowInit ==
    /\ prog \in FlowInputs
    /\ functions = <<>>
    /\ diagnostics = <<>>
    /\ frames = <<>>
    /\ stack = <<>>
    /\ globals = <<>>
    /\ open_upvalues = <<>>
    /\ cells = <<>>
    /\ method_rcs = <<>>
    /\ classes = <<>>
    /\ instances = <<>>
    /\ bound_methods = <<>>
    /\ print_output = <<>>
    /\ error_output = <<>>
    /\ result = "init"
    /\ gen = <<>>
    /\ gen_next = 0
    /\ parser = <<>>
    /\ loops = <<>>
    /\ builder = <<>>
    /\ patches = <<>>
    /\ units = <<>>
    /\ table = <<>>
    /\ symbols = <<>>
    /\ scanner = <<>>
    /\ scanned = <<>>

FlowNext ==
    \/ RunProgram
    \/ OpConstant \/ OpNil \/ OpTrue \/ OpFalse \/ OpPop \/ OpPrint
    \/ OpDefineGlobal \/ OpGetGlobal \/ OpSetGlobal \/ OpGetLocal \/ OpSetLocal
    \/ OpJumpIfFalse \/ OpJump \/ OpLoop \/ OpReturn

FlowSpec == FlowInit /\ [][FlowNext]_vars

(***************************************************************************)
(* The programs of calls, compiled and run.                                *)
(***************************************************************************)
CallsInit ==
    /\ prog \in CallsInputs
    /\ functions = <<>>
    /\ diagnostics = <<>>
    /\ frames = <<>>
    /\ stack = <<>>
    /\ globals = <<>>
    /\ open_upvalues = <<>>
    /\ cells = <<>>
    /\ method_rcs = <<>>
    /\ classes = <<>>
    /\ instances = <<>>
    /\ bound_methods = <<>>
    /\ print_output = <<>>
    /\ error_output = <<>>
    /\ result = "init"
    /\ gen = <<>>
    /\ gen_next = 0
    /\ parser = <<>>
    /\ loops = <<>>
    /\ builder = <<>>
    /\ patches = <<>>
    /\ units = <<>>
    /\ table = <<>>
    /\ symbols = <<>>
    /\ scanner = <<>>
    /\ scanned = <<>>

CallsNext ==
    \/ RunProgram
    \/ OpClosure \/ OpClass \/ OpDefineGlobal \/ OpGetGlobal \/ OpGetLocal
    \/ OpConstant \/ OpTrue \/ OpNil \/ OpPop \/ OpPrint \/ OpReturn
    \/ OpCall

CallsSpec == CallsInit /\ [][CallsNext]_vars

(***************************************************************************)
(* The program that recurses without an end, compiled and run: the frames  *)
(* grow until the machine is out of memory, and are followed here up to    *)
(* MaxFrames of them.                                                      *)
(***************************************************************************)
MaxFrames == 257

RecursionInit ==
    /\ prog = Input("Recursion", 0)
    /\ functions = <<>>
    /\ diagnostics = <<>>
    /\ frames = <<>>
    /\ stack = <<>>
    /\ globals = <<>>
    /\ open_upvalues = <<>>
    /\ cells = <<>>
    /\ method_rcs = <<>>
    /\ classes = <<>>
    /\ instances = <<>>
    /\ bound_methods = <<>>
    /\ print_output = <<>>
    /\ error_output = <<>>
    /\ result = "init"
    /\ gen = <<>>
    /\ gen_next = 0
    /\ parser = <<>>
    /\ loops = <<>>
    /\ builder = <<>>
    /\ patches = <<>>
    /\ units = <<>>
    /\ table = <<>>
    /\ symbols = <<>>
    /\ scanner = <<>>
    /\ scanned = <<>>

\* Call while there are fewer than MaxFrames frames.
RecursionCall == Len(frames) < MaxFrames /\ OpCall

RecursionNext ==
    \/ RunProgram
    \/ OpClosure \/ OpDefineGlobal \/ OpGetGlobal \/ RecursionCall

RecursionSpec == RecursionInit /\ [][RecursionNext]_vars

(***************************************************************************)
(* The programs of statements, compiled and run.                           *)
(***************************************************************************)
SequenceInit ==
    /\ prog \in SequenceInputs
    /\ functions = <<>>
    /\ diagnostics = <<>>
    /\ frames = <<>>
    /\ stack = <<>>
    /\ globals = <<>>
    /\ open_upvalues = <<>>
    /\ cells = <<>>
    /\ method_rcs = <<>>
    /\ classes = <<>>
    /\ instances = <<>>
    /\ bound_methods = <<>>
    /\ print_output = <<>>
    /\ error_output = <<>>
    /\ result = "init"
    /\ gen = <<>>
    /\ gen_next = 0
    /\ parser = <<>>
    /\ loops = <<>>
    /\ builder = <<>>
    /\ patches = <<>>
    /\ units = <<>>
    /\ table = <<>>
    /\ symbols = <<>>
    /\ scanner = <<>>
    /\ scanned = <<>>

SequenceNext ==
    \/ RunProgram
    \/ OpConstant \/ OpNil \/ OpFalse \/ OpAdd \/ OpLess \/ OpPop \/ OpPrint
    \/ OpDefineGlobal \/ OpGetGlobal \/ OpGetLocal \/ OpSetLocal \/ OpGetUpvalue
    \/ OpJump \/ OpJumpIfFalse \/ OpLoop
    \/ OpClosure \/ OpCloseUpvalue \/ OpCall \/ OpReturn
    \/ OpClass \/ OpMethod \/ OpInherit

SequenceSpec == SequenceInit /\ [][SequenceNext]_vars




(***************************************************************************)
(* The compiler, followed one loop iteration at a time.  Parser::compile   *)
(* is the loop of CompileDeclaration; a block statement and a call of a    *)
(* named function that a top-level statement starts with are followed one  *)
(* iteration of their loops at a time, so that a loop of hundreds of       *)
(* iterations is a behaviour of hundreds of steps.  The input is a token   *)
(* stream as the scanner can produce it: any tokens, Error tokens among    *)
(* them, and one EOF at the end.                                           *)
(***************************************************************************)
OneLine(tokens) == Source(<<tokens>>)

\* The token streams that are well formed; the inputs vary them.
BasePrograms ==
    << \* class B < A { m(a) { return a; } }
       <<K("Class"), Id("B"), K("Less"), Id("A"), K("LeftBrace"), Id("m"),
         K("LeftParen"), Id("a"), K("RightParen"), K("LeftBrace"), K("Return"),
         Id("a"), K("Semicolon"), K("RightBrace"), K("RightBrace")>>,
       \* { var a = 1; f(a, 2); }
       <<K("LeftBrace"), K("Var"), Id("a"), K("Equal"), Num("1"), K("Semicolon"),
         Id("f"), K("LeftParen"), Id("a"), K("Comma"), Num("2"), K("RightParen"),
         K("Semicolon"), K("RightBrace")>>,
       \* f(nil, 1).g = a;
       <<Id("f"), K("LeftParen"), K("Nil"), K("Comma"), Num("1"), K("RightParen"),
         K("Dot"), Id("g"), K("Equal"), Id("a"), K("Semicolon")>>,
       \* if (a) b = 1; else while (a) print -a;
       <<K("If"), K("LeftParen"), Id("a"), K("RightParen"), Id("b"), K("Equal"),
         Num("1"), K("Semicolon"), K("Else"), K("While"), K("LeftParen"), Id("a"),
         K("RightParen"), K("Print"), K("Minus"), Id("a"), K("Semicolon")>>,
       \* fun f(a) { for (;;) a; }
       <<K("Fun"), Id("f"), K("LeftParen"), Id("a"), K("RightParen"),
         K("LeftBrace"), K("For"), K("LeftParen"), K("Semicolon"), K("Semicolon"),
         K("RightParen"), Id("a"), K("Semicolon"), K("RightBrace")>> >>

\* The tokens a position of a base program is replaced by, or that are
\* put in front of it.
ErrorToken == [type |-> "Error", lexeme |-> "Unexpected character."]

StrayTokens ==
    {ErrorToken, Id("a"), Num("1")}
    \cup {K(t) : t \in {"LeftBrace", "RightBrace", "LeftParen", "RightParen",
                        "Semicolon", "Comma", "Equal", "Dot", "Less", "Class",
                        "Fun", "Var", "Return", "This", "Super", "For", "Else"}}

Replaced(tokens, at, token) == [tokens EXCEPT ![at] = token]

Inserted(tokens, at, token) ==
    SubSeq(tokens, 1, at - 1) \o <<token>> \o SubSeq(tokens, at, Len(tokens))

Truncated(tokens, at) == SubSeq(tokens, 1, at - 1)

\* n statements with a constant each:  1; 2; ... n;
ConstantsProgram(n) ==
    OneLine([i \in 1..(2 * n) |->
                IF i % 2 = 1 THEN Num(NatToString((i + 1) \div 2)) ELSE K("Semicolon")])

\* A block of n locals:  { var a1; var a2; ... var an; }
LocalsProgram(n) ==
    OneLine(<<K("LeftBrace")>>
            \o [i \in 1..(3 * n) |->
                   CASE i % 3 = 1 -> K("Var")
                     [] i % 3 = 2 -> Id("a" \o NatToString((i + 1) \div 3))
                     [] OTHER -> K("Semicolon")]
            \o <<K("RightBrace")>>)

\* A call with n arguments:  f(nil, nil, ... nil);
ArgumentsProgram(n) ==
    OneLine(<<Id("f"), K("LeftParen")>>
            \o [i \in 1..(2 * n - 1) |-> IF i % 2 = 1 THEN K("Nil") ELSE K("Comma")]
            \o <<K("RightParen"), K("Semicolon")>>)

CompileSource(input) ==
    CASE input.id = "Replaced" ->
             OneLine(Replaced(BasePrograms[input.k.base], input.k.at, input.k.token))
      [] input.id = "Inserted" ->
             OneLine(Inserted(BasePrograms[input.k.base], input.k.at, input.k.token))
      [] input.id = "Truncated" ->
             OneLine(Truncated(BasePrograms[input.k.base], input.k.at))
      [] input.id = "Constants" -> ConstantsProgram(input.k)
      [] input.id = "Locals" -> LocalsProgram(input.k)
      [] input.id = "Arguments" -> ArgumentsProgram(input.k)

\* An input and the build it is compiled by.
CompileInput(id, k, checks) == [id |-> id, k |-> k, overflow_checks |-> checks]

MutatedInputs(b) ==
    {CompileInput(id, [base |-> b, at |-> at, token |-> t], c) :
         id \in {"Replaced", "Inserted"},
         at \in 1..Len(BasePrograms[b]), t \in StrayTokens, c \in BOOLEAN}
    \cup {CompileInput("Truncated", [base |-> b, at |-> at], c) :
              at \in 1..(Len(BasePrograms[b]) + 1), c \in BOOLEAN}

\* The limits are met one short of the limit, at it and one past it.
CompileInputs ==
    UNION {MutatedInputs(b) : b \in 1..Len(BasePrograms)}
    \cup {CompileInput("Constants", n, c) : n \in U8Max..(U8Max + 2), c \in BOOLEAN}
    \cup {CompileInput(id, n, c) : id \in {"Locals", "Arguments"},
                                   n \in (U8Max - 1)..(U8Max + 1), c \in BOOLEAN}

StartsCall(p) ==
    /\ check(p, "Identifier")
    /\ p.pos <= Len(p.source)
    /\ p.source[p.pos].type = "LeftParen"

Compiling == result = "init" /\ parser.panic = "" /\ ~parser.stalled

vmVars == <<frames, stack, globals, open_upvalues, cells, method_rcs, classes,
            instances, bound_methods, print_output, error_output, gen, gen_next>>

otherUnitVars == <<builder, patches, units, table, symbols, scanner, scanned>>

CompileInit ==
    /\ prog \in CompileInputs
    /\ parser = [ParserNew(CompileSource(prog))
                     EXCEPT !.overflow_checks = prog.overflow_checks]
    /\ loops = <<>>
    /\ functions = <<>>
    /\ diagnostics = <<>>
    /\ frames = <<>>
    /\ stack = <<>>
    /\ globals = <<>>
    /\ open_upvalues = <<>>
    /\ cells = <<>>
    /\ method_rcs = <<>>
    /\ classes = <<>>
    /\ instances = <<>>
    /\ bound_methods = <<>>
    /\ print_output = <<>>
    /\ error_output = <<>>
    /\ result = "init"
    /\ gen = <<>>
    /\ gen_next = 0
    /\ builder = <<>>
    /\ patches = <<>>
    /\ units = <<>>
    /\ table = <<>>
    /\ symbols = <<>>
    /\ scanner = <<>>
    /\ scanned = <<>>

CompileStep(q, ls) ==
    /\ parser' = q
    /\ loops' = ls
    /\ UNCHANGED <<prog, functions, diagnostics, result, vmVars, otherUnitVars>>

\* One pass of the loop of Parser::compile.
CompileDeclaration ==
    /\ Compiling /\ loops = <<>>
    /\ ~check(parser, "EOF") /\ ~check(parser, "LeftBrace") /\ ~StartsCall(parser)
    /\ \E q \in {Method("declaration", parser, 0)} :
           CompileStep(Iterated(parser, q), <<>>)

\* statement() at '{': begin_scope, and block() is entered.
BlockBegin ==
    /\ Compiling /\ loops = <<>>
    /\ check(parser, "LeftBrace")
    /\ CompileStep(begin_scope(advance(parser)), <<[kind |-> "block"]>>)

\* One pass of the loop of block().
BlockIteration ==
    /\ Compiling /\ loops # <<>> /\ loops[1].kind = "block"
    /\ ~check(parser, "RightBrace") /\ ~check(parser, "EOF")
    /\ \E q \in {Method("declaration", parser, 0)} :
           CompileStep(Iterated(parser, q), loops)

\* The end of block(), end_scope, and the end of declaration().
BlockEnd ==
    /\ Compiling /\ loops # <<>> /\ loops[1].kind = "block"
    /\ check(parser, "RightBrace") \/ check(parser, "EOF")
    /\ \E q \in {end_scope(consume(parser, "RightBrace", "Expected '}' after block."))} :
           CompileStep(Synchronized(q), <<>>)

\* An expression statement that starts with NAME( : parse_precedence
\* advances, variable() loads NAME, the infix loop advances over '(' and
\* argument_list() is entered.
ArgumentsBegin ==
    /\ Compiling /\ loops = <<>>
    /\ StartsCall(parser)
    /\ \E q \in {advance(variable(advance(parser), TRUE))} :
           CompileStep(q, <<[kind |-> "arguments", arg_count |-> 0,
                             more |-> ~check(q, "RightParen")]>>)

\* One pass of the loop of argument_list().
ArgumentStep ==
    /\ Compiling /\ loops # <<>> /\ loops[1].kind = "arguments" /\ loops[1].more
    /\ \E x \in {ArgumentIteration(parser, loops[1].arg_count)} :
           IF x.p.panic = "" /\ check(x.p, "Comma")
           THEN CompileStep(advance(x.p),
                            <<[kind |-> "arguments", arg_count |-> x.arg_count,
                               more |-> TRUE]>>)
           ELSE CompileStep(x.p,
                            <<[kind |-> "arguments", arg_count |-> x.arg_count,
                               more |-> FALSE]>>)

ArgumentsEnd ==
    /\ Compiling /\ loops # <<>> /\ loops[1].kind = "arguments" /\ ~loops[1].more
    /\ CompileStep(Method("after_call", parser, loops[1].arg_count), <<>>)

\* Parser::compile after its loop: end_compile, then Err or Ok.
CompileEnd ==
    /\ Compiling /\ loops = <<>>
    /\ check(parser, "EOF")
    /\ \E e \in {end_compile(matches(parser, "EOF"))} :
           /\ parser' = e
           /\ functions' = e.functions
           /\ diagnostics' = e.diagnostics
           /\ result' = IF e.panic # "" THEN "panic"
                         ELSE IF e.had_error THEN "compile_error" ELSE "ok"
    /\ UNCHANGED <<prog, loops, vmVars, otherUnitVars>>

\* A panic inside the compiler ends the process.
CompileAbort ==
    /\ result = "init" /\ parser.panic # ""
    /\ result' = "panic"
    /\ diagnostics' = parser.diagnostics
    /\ UNCHANGED <<prog, parser, loops, functions, vmVars, otherUnitVars>>

CompileNext ==
    \/ CompileDeclaration
    \/ BlockBegin \/ BlockIteration \/ BlockEnd
    \/ ArgumentsBegin \/ ArgumentStep \/ ArgumentsEnd
    \/ CompileEnd \/ CompileAbort

CompileSpec == CompileInit /\ [][CompileNext]_vars

\* The scheduler is the sequential program: a step that can be taken is.
CompileLive == CompileSpec /\ WF_vars(CompileNext)


(***************************************************************************)
(* The chunk builder under any sequence of calls (src/src/chunk.rs,        *)
(* ChunkBuilder and Patch).  A call that panics ends the process; build()  *)
(* consumes the builder.  A Patch is consumed by apply(), so each is       *)
(* applied at most once.                                                   *)
(***************************************************************************)
\* The longest code the calls write.
MaxCode == 4

\* An opcode without operands, one with one, one with two, and the one
\* with the trailer of any length.
BuilderOpcodes == {"Return", "Constant", "Jump", "Closure"}

BuilderIndexes == {0, U8Max}

BuilderPositions == {0, U16Max}

\* The positions the patches are applied with.
PatchPositions == {1, U8Max + 1}

BuilderInit ==
    /\ builder = ChunkBuilderNew
    /\ patches = {}
    /\ units = <<>>
    /\ result = "init"
    /\ prog = Input("Builder", 0)
    /\ functions = <<>>
    /\ diagnostics = <<>>
    /\ frames = <<>>
    /\ stack = <<>>
    /\ globals = <<>>
    /\ open_upvalues = <<>>
    /\ cells = <<>>
    /\ method_rcs = <<>>
    /\ classes = <<>>
    /\ instances = <<>>
    /\ bound_methods = <<>>
    /\ print_output = <<>>
    /\ error_output = <<>>
    /\ gen = <<>>
    /\ gen_next = 0
    /\ parser = <<>>
    /\ loops = <<>>
    /\ table = <<>>
    /\ symbols = <<>>
    /\ scanner = <<>>
    /\ scanned = <<>>

Building == result = "init" /\ builder.panic = "" /\ Len(builder.code) < MaxCode

\* The builder after a call, the patches that are out and the units the
\* call wrote; the process ends with a panic.
BuilderStep(b, ps, written) ==
    /\ builder' = b
    /\ patches' = IF b.panic = "" THEN ps ELSE patches
    /\ units' = IF b.panic = "" THEN units \o written ELSE units
    /\ result' = IF b.panic = "" THEN result ELSE "panic"
    /\ UNCHANGED <<prog, functions, diagnostics, vmVars, parser, loops, table, symbols,
                 scanner, scanned>>

BuilderWriteOpcode ==
    /\ Building
    /\ \E opcode \in BuilderOpcodes :
           BuilderStep(write_opcode(builder, opcode, 1), patches, <<opcode>>)

BuilderWriteIndex ==
    /\ Building
    /\ \E index \in BuilderIndexes :
           BuilderStep(write_index(builder, index), patches, <<"operand">>)

BuilderWriteAddress ==
    /\ Building
    /\ \E position \in BuilderPositions :
           BuilderStep(write_address(builder, position), patches,
                       <<"operand", "operand">>)

BuilderWritePatch ==
    /\ Building
    /\ \E b \in {write_patch(builder)} :
           BuilderStep(b, patches \cup {PatchLocation(b)}, <<"operand", "operand">>)

\* Patch::apply of a patch that is out.
BuilderApplyPatch ==
    /\ result = "init" /\ builder.panic = ""
    /\ \E location \in patches, position \in PatchPositions :
           BuilderStep(patch_apply(builder, location, position),
                       patches \ {location}, <<>>)

BuilderAddConstant ==
    /\ Building /\ Len(builder.constants) < MaxCode
    /\ BuilderStep(add_constant(builder, NilV), patches, <<>>)

\* ChunkBuilder::build: the chunk is BuildChunk(builder), or the panic.
BuilderBuild ==
    /\ result = "init" /\ builder.panic = ""
    /\ result' = IF BuildPanic(builder) = "" THEN "built" ELSE "panic"
    /\ UNCHANGED <<builder, patches, units>>
    /\ UNCHANGED <<prog, functions, diagnostics, vmVars, parser, loops, table, symbols, scanner, scanned>>

BuilderNext ==
    \/ BuilderWriteOpcode \/ BuilderWriteIndex \/ BuilderWriteAddress
    \/ BuilderWritePatch \/ BuilderApplyPatch \/ BuilderAddConstant
    \/ BuilderBuild

BuilderSpec == BuilderInit /\ [][BuilderNext]_vars


(***************************************************************************)
(* The symbol table under any sequence of intern calls                     *)
(* (src/src/intern_string.rs).  table.rcs are the Rc<String> allocations   *)
(* made so far, each with its text and its strong count; table.pool holds  *)
(* the weak references of the WeakHashSet, which read as absent once the   *)
(* strong count is 0.  symbols are the Symbols the caller holds; the field *)
(* name is a history field, the text that was passed to intern.            *)
(***************************************************************************)
\* The most allocations made and the most symbols held at once.
MaxRc == 4

MaxSymbols == 3

Texts == {"Hello", "World", "42"}

SymbolTableNew == [pool |-> {}, rcs |-> <<>>]

\* WeakHashSet::get: the live entry with this text, 0 when there is none.
PoolGet(t, name) ==
    IF \E rc \in t.pool : t.rcs[rc].strong > 0 /\ t.rcs[rc].text = name
    THEN CHOOSE rc \in t.pool : t.rcs[rc].strong > 0 /\ t.rcs[rc].text = name
    ELSE 0

\* intern as it would be if it never looked the text up.
intern_without_lookup(t, name) ==
    [table  |-> [pool |-> t.pool \cup {Len(t.rcs) + 1},
                 rcs  |-> Append(t.rcs, [text |-> name, strong |-> 1])],
     symbol |-> [intern |-> Len(t.rcs) + 1, name |-> name]]

\* SymbolTable::intern: the table after the call and the symbol returned.
intern(t, name) ==
    IF PoolGet(t, name) # 0
    THEN [table  |-> [t EXCEPT !.rcs[PoolGet(t, name)].strong = @ + 1],
          symbol |-> [intern |-> PoolGet(t, name), name |-> name]]
    ELSE [table  |-> [pool |-> t.pool \cup {Len(t.rcs) + 1},
                      rcs  |-> Append(t.rcs, [text |-> name, strong |-> 1])],
          symbol |-> [intern |-> Len(t.rcs) + 1, name |-> name]]

\* PartialEq for Symbol: Rc::ptr_eq.
SymbolEq(a, b) == a.intern = b.intern

\* Deref for Symbol: the text of the allocation.
SymbolDeref(t, s) == t.rcs[s.intern].text

InternInit ==
    /\ table = SymbolTableNew
    /\ symbols = <<>>
    /\ scanner = <<>>
    /\ scanned = <<>>
    /\ result = "init"
    /\ prog = Input("Intern", 0)
    /\ functions = <<>>
    /\ diagnostics = <<>>
    /\ frames = <<>>
    /\ stack = <<>>
    /\ globals = <<>>
    /\ open_upvalues = <<>>
    /\ cells = <<>>
    /\ method_rcs = <<>>
    /\ classes = <<>>
    /\ instances = <<>>
    /\ bound_methods = <<>>
    /\ print_output = <<>>
    /\ error_output = <<>>
    /\ gen = <<>>
    /\ gen_next = 0
    /\ parser = <<>>
    /\ loops = <<>>
    /\ builder = <<>>
    /\ patches = <<>>
    /\ units = <<>>

internUnchanged ==
    UNCHANGED <<prog, functions, diagnostics, vmVars, result,
                parser, loops, builder, patches, units, scanner, scanned>>

InternCall ==
    /\ Len(symbols) < MaxSymbols
    /\ \E name \in Texts :
           /\ PoolGet(table, name) = 0 => Len(table.rcs) < MaxRc
           /\ \E r \in {intern(table, name)} :
                  /\ table' = r.table
                  /\ symbols' = Append(symbols, r.symbol)
    /\ internUnchanged

\* #[derive(Clone)] for Symbol: one more strong reference.
SymbolClone ==
    /\ Len(symbols) < MaxSymbols
    /\ \E i \in DOMAIN symbols :
           /\ table' = [table EXCEPT !.rcs[symbols[i].intern].strong = @ + 1]
           /\ symbols' = Append(symbols, symbols[i])
    /\ internUnchanged

\* A symbol is dropped; the allocation dies with its last symbol.
SymbolDrop ==
    /\ \E i \in DOMAIN symbols :
           /\ table' = [table EXCEPT !.rcs[symbols[i].intern].strong = @ - 1]
           /\ symbols' = SubSeq(symbols, 1, i - 1) \o SubSeq(symbols, i + 1, Len(symbols))
    /\ internUnchanged

InternNext == InternCall \/ SymbolClone \/ SymbolDrop

InternSpec == InternInit /\ [][InternNext]_vars


(***************************************************************************)
(* patch_jump and emit_loop over bodies of every length around the limit   *)
(* of the 16-bit operand (src/src/compile.rs).  prog.k is the number of    *)
(* code bytes between the jump and its target; loops holds the Patch or    *)
(* the loop start and whether the body has been emitted.                   *)
(***************************************************************************)
\* The short bodies are 0..MaxBody bytes long.
MaxBody == 12

\* The body lengths at which a byte of the operand carries, and those
\* around the limit of a forward jump and of a loop (whose offset is the
\* body and the three bytes of the Loop instruction).
BodyLengths ==
    0..MaxBody
    \cup {U8Max - 3, U8Max, U8Max + 1, U8Max + 2}
    \cup (U16Max - 4)..(U16Max + 2)

JumpInputs ==
    {[id |-> id, k |-> k] : id \in {"Jump", "JumpIfFalse", "Loop"}, k \in BodyLengths}

\* n times emit_opcode(Nil): a body of n bytes.
EmitBody(p, n) ==
    SetChunk(p, [current_chunk(p) EXCEPT
                     !.code = @ \o [i \in 1..n |-> OpByte("Nil")],
                     !.lines = @ \o [i \in 1..n |-> p.previous.line],
                     !.required_indexes = 0])

JumpInit ==
    /\ prog \in JumpInputs
    /\ parser = ParserNew(OneLine(<<>>))
    /\ loops = <<>>
    /\ result = "init"
    /\ functions = <<>>
    /\ diagnostics = <<>>
    /\ frames = <<>>
    /\ stack = <<>>
    /\ globals = <<>>
    /\ open_upvalues = <<>>
    /\ cells = <<>>
    /\ method_rcs = <<>>
    /\ classes = <<>>
    /\ instances = <<>>
    /\ bound_methods = <<>>
    /\ print_output = <<>>
    /\ error_output = <<>>
    /\ gen = <<>>
    /\ gen_next = 0
    /\ builder = <<>>
    /\ patches = <<>>
    /\ units = <<>>
    /\ table = <<>>
    /\ symbols = <<>>
    /\ scanner = <<>>
    /\ scanned = <<>>

JumpUnitStep(q, ls, r) ==
    /\ parser' = q
    /\ loops' = ls
    /\ result' = r
    /\ diagnostics' = q.diagnostics
    /\ UNCHANGED <<prog, functions, vmVars, otherUnitVars>>

\* emit_jump: the opcode and the Patch in place of its operand.
JumpEmit ==
    /\ result = "init" /\ loops = <<>> /\ prog.id # "Loop"
    /\ \E q \in {emit_jump(parser, prog.id)} :
           JumpUnitStep(q, <<[kind |-> "jump", patch |-> q.ret, body |-> FALSE]>>, "init")

\* The start of a loop is the length of the code there.
LoopStart ==
    /\ result = "init" /\ loops = <<>> /\ prog.id = "Loop"
    /\ JumpUnitStep(parser, <<[kind |-> "loop",
                           loop_start |-> Len(current_chunk(parser).code),
                           body |-> FALSE]>>, "init")

JumpBody ==
    /\ result = "init" /\ loops # <<>> /\ ~loops[1].body
    /\ JumpUnitStep(EmitBody(parser, prog.k), <<[loops[1] EXCEPT !.body = TRUE]>>, "init")

JumpPatch ==
    /\ result = "init" /\ loops # <<>> /\ loops[1].kind = "jump" /\ loops[1].body
    /\ \E q \in {patch_jump(parser, loops[1].patch)} :
           JumpUnitStep(q, loops, IF q.had_error THEN "compile_error" ELSE "ok")

LoopEmit ==
    /\ result = "init" /\ loops # <<>> /\ loops[1].kind = "loop" /\ loops[1].body
    /\ \E q \in {emit_loop(parser, loops[1].loop_start)} :
           JumpUnitStep(q, loops, IF q.had_error THEN "compile_error" ELSE "ok")

JumpNext == JumpEmit \/ LoopStart \/ JumpBody \/ JumpPatch \/ LoopEmit

JumpSpec == JumpInit /\ [][JumpNext]_vars


(***************************************************************************)
(* parse_precedence over every short token list of names, '.', '+', '-'    *)
(* and '=', followed by ';', at each precedence the parser calls it with   *)
(* (src/src/compile.rs).                                                   *)
(***************************************************************************)
\* The longest expression, in tokens.
MaxTokens == 5

ExpressionAlphabet == {Id("a"), K("Dot"), K("Plus"), K("Minus"), K("Equal")}

\* expression() and unary() pass Assignment and Unary, and() and or()
\* their own precedence, binary() the precedence above the operator's.
CalledPrecedences ==
    {PrecAssignment, PrecOr, PrecAnd, PrecComparison, PrecTerm, PrecFactor, PrecUnary}

ExpressionInputs ==
    {[id |-> "Expression", k |-> tokens, precedence |-> precedence] :
         tokens \in UNION {[1..n -> ExpressionAlphabet] : n \in 1..MaxTokens},
         precedence \in CalledPrecedences}

ExpressionInit ==
    /\ prog \in ExpressionInputs
    /\ parser = ParserNew(OneLine(prog.k \o <<K("Semicolon")>>))
    /\ loops = <<>>
    /\ result = "init"
    /\ functions = <<>>
    /\ diagnostics = <<>>
    /\ frames = <<>>
    /\ stack = <<>>
    /\ globals = <<>>
    /\ open_upvalues = <<>>
    /\ cells = <<>>
    /\ method_rcs = <<>>
    /\ classes = <<>>
    /\ instances = <<>>
    /\ bound_methods = <<>>
    /\ print_output = <<>>
    /\ error_output = <<>>
    /\ gen = <<>>
    /\ gen_next = 0
    /\ builder = <<>>
    /\ patches = <<>>
    /\ units = <<>>
    /\ table = <<>>
    /\ symbols = <<>>
    /\ scanner = <<>>
    /\ scanned = <<>>

\* One call of parse_precedence on the fresh parser.
ParsePrecedence ==
    /\ result = "init"
    /\ \E q \in {Method("parse_precedence", parser, prog.precedence)} :
           /\ parser' = q
           /\ diagnostics' = q.diagnostics
           /\ result' = IF q.panic # "" THEN "panic"
                         ELSE IF q.had_error THEN "compile_error" ELSE "ok"
    /\ UNCHANGED <<prog, loops, functions, vmVars, otherUnitVars>>

ExpressionNext == ParsePrecedence

ExpressionSpec == ExpressionInit /\ [][ExpressionNext]_vars

(***************************************************************************)
(* return inside each kind of function (src/src/compile.rs,                *)
(* return_statement, emit_return, method): a body of return and print      *)
(* statements is compiled as the script, as the body of a function, of a   *)
(* method, of a method named init, and of a function declared inside      *)
(* init.                                                                   *)
(***************************************************************************)
\* The longest body.
MaxStatements == 2

ReturnStatements == {"bare", "value", "print"}

ReturnContexts == {"Script", "Function", "Method", "Initializer", "Nested"}

ReturnInputs ==
    {Input("Return", [context |-> c, body |-> b]) :
         c \in ReturnContexts,
         b \in UNION {[1..n -> ReturnStatements] : n \in 0..MaxStatements}}

\* return;   return 1;   print 1;
StatementTokens(s) ==
    CASE s = "bare" -> <<K("Return"), K("Semicolon")>>
      [] s = "value" -> <<K("Return"), Num("1"), K("Semicolon")>>
      [] s = "print" -> <<K("Print"), Num("1"), K("Semicolon")>>

RECURSIVE BodyTokens(_)
BodyTokens(body) ==
    IF body = <<>> THEN <<>> ELSE StatementTokens(Head(body)) \o BodyTokens(Tail(body))

\* fun NAME() { body }   or, without fun, the method NAME.
FunctionTokens(intro, name, body) ==
    intro \o <<Id(name), K("LeftParen"), K("RightParen"), K("LeftBrace")>>
          \o body \o <<K("RightBrace")>>

ClassTokens(methods) ==
    <<K("Class"), Id("A"), K("LeftBrace")>> \o methods \o <<K("RightBrace")>>

ReturnProgram(input) ==
    LET body == BodyTokens(input.k.body)
    IN OneLine(
        CASE input.k.context = "Script" -> body
          [] input.k.context = "Function" -> FunctionTokens(<<K("Fun")>>, "f", body)
          [] input.k.context = "Method" -> ClassTokens(FunctionTokens(<<>>, "m", body))
          [] input.k.context = "Initializer" ->
                 ClassTokens(FunctionTokens(<<>>, "init", body))
          [] input.k.context = "Nested" ->
                 ClassTokens(FunctionTokens(<<>>, "init",
                                            FunctionTokens(<<K("Fun")>>, "g", body))))

ReturnInit ==
    /\ prog \in ReturnInputs
    /\ parser = ParserNew(ReturnProgram(prog))
    /\ loops = <<>>
    /\ result = "init"
    /\ functions = <<>>
    /\ diagnostics = <<>>
    /\ frames = <<>>
    /\ stack = <<>>
    /\ globals = <<>>
    /\ open_upvalues = <<>>
    /\ cells = <<>>
    /\ method_rcs = <<>>
    /\ classes = <<>>
    /\ instances = <<>>
    /\ bound_methods = <<>>
    /\ print_output = <<>>
    /\ error_output = <<>>
    /\ gen = <<>>
    /\ gen_next = 0
    /\ builder = <<>>
    /\ patches = <<>>
    /\ units = <<>>
    /\ table = <<>>
    /\ symbols = <<>>
    /\ scanner = <<>>
    /\ scanned = <<>>

\* Parser::compile on the program.
CompileProgram ==
    /\ result = "init"
    /\ \E r \in {compile(parser.source)} :
           /\ functions' = r.functions
           /\ diagnostics' = r.diagnostics
           /\ result' = IF r.panic # "" THEN "panic"
                         ELSE IF r.ok THEN "ok" ELSE "compile_error"
    /\ UNCHANGED <<prog, parser, loops, vmVars, otherUnitVars>>

ReturnNext == CompileProgram

ReturnSpec == ReturnInit /\ [][ReturnNext]_vars

(***************************************************************************)
(* Variable declarations in nested blocks (src/src/compile.rs):            *)
(* declaration(), var_declaration() and block() are followed one step at   *)
(* a time, so that a local is seen between its declaration and its         *)
(* definition.  loops holds the blocks and the declaration the compiler is *)
(* inside of, the innermost first.                                         *)
(***************************************************************************)
\* The longest program, in items.
MaxItems == 4

VariableNames == {"a", "b"}

\* An item is  {  or  }  or  var NAME;  or  var NAME = OTHER;  or, in the
\* programs of the scopes below,  fun NAME() { OTHER; }
VariableItems ==
    {[kind |-> "{"], [kind |-> "}"]}
    \cup {[kind |-> "var", name |-> n, initializer |-> i] :
              n \in VariableNames, i \in VariableNames \cup {""}}

ItemTokens(item) ==
    CASE item.kind = "{" -> <<K("LeftBrace")>>
      [] item.kind = "}" -> <<K("RightBrace")>>
      [] item.kind = "var" /\ item.initializer = "" ->
             <<K("Var"), Id(item.name), K("Semicolon")>>
      [] item.kind = "fun" ->
             <<K("Fun"), Id(item.name), K("LeftParen"), K("RightParen"),
               K("LeftBrace"), Id(item.captures), K("Semicolon"), K("RightBrace")>>
      [] OTHER -> <<K("Var"), Id(item.name), K("Equal"), Id(item.initializer),
                    K("Semicolon")>>

RECURSIVE ItemsTokens(_)
ItemsTokens(items) ==
    IF items = <<>> THEN <<>> ELSE ItemTokens(Head(items)) \o ItemsTokens(Tail(items))

\* The number of blocks that are open after the items.
RECURSIVE OpenBlocks(_)
OpenBlocks(items) ==
    IF items = <<>> THEN 0
    ELSE LET front == OpenBlocks(SubSeq(items, 1, Len(items) - 1))
             last == items[Len(items)]
         IN CASE last.kind = "{" -> front + 1
              [] last.kind = "}" -> front - 1
              [] OTHER -> front

\* No } without its { ; a block may be left open.
Nested(items) == \A n \in 1..Len(items) : OpenBlocks(SubSeq(items, 1, n)) >= 0

VariableInputs ==
    {Input("Variables", items) :
         items \in {s \in UNION {[1..n -> VariableItems] : n \in 1..MaxItems} : Nested(s)}}

VariableInit ==
    /\ prog \in VariableInputs
    /\ parser = ParserNew(OneLine(ItemsTokens(prog.k)))
    /\ loops = <<>>
    /\ result = "init"
    /\ functions = <<>>
    /\ diagnostics = <<>>
    /\ frames = <<>>
    /\ stack = <<>>
    /\ globals = <<>>
    /\ open_upvalues = <<>>
    /\ cells = <<>>
    /\ method_rcs = <<>>
    /\ classes = <<>>
    /\ instances = <<>>
    /\ bound_methods = <<>>
    /\ print_output = <<>>
    /\ error_output = <<>>
    /\ gen = <<>>
    /\ gen_next = 0
    /\ builder = <<>>
    /\ patches = <<>>
    /\ units = <<>>
    /\ table = <<>>
    /\ symbols = <<>>
    /\ scanner = <<>>
    /\ scanned = <<>>

\* The compiler is at the start of a declaration().
AtDeclaration ==
    /\ result = "init" /\ parser.panic = ""
    /\ IF loops = <<>> THEN TRUE ELSE Head(loops).kind = "block"

InVarDeclaration ==
    /\ result = "init" /\ parser.panic = ""
    /\ IF loops = <<>> THEN FALSE ELSE Head(loops).kind = "var"

\* declaration() at var, and var_declaration() up to parse_variable.
VarDeclare ==
    /\ AtDeclaration
    /\ check(parser, "Var")
    /\ \E v \in {parse_variable(advance(parser), "Expected variable name.")} :
           CompileStep(v, <<[kind |-> "var", global |-> v.ret, initialized |-> FALSE]>>
                          \o loops)

\* var_declaration(): the initializer, or nil.
VarInitialize ==
    /\ InVarDeclaration /\ ~Head(loops).initialized
    /\ \E e \in {IF check(parser, "Equal")
                 THEN Method("parse_precedence", advance(parser), PrecAssignment)
                 ELSE emit_opcode(parser, "Nil")} :
           CompileStep(e, <<[Head(loops) EXCEPT !.initialized = TRUE]>> \o Tail(loops))

\* The end of var_declaration(), and of declaration().
VarDefine ==
    /\ InVarDeclaration /\ Head(loops).initialized
    /\ \E d \in {define_variable(consume(parser, "Semicolon",
                                         "Expected ';' after variable declaration."),
                                 Head(loops).global)} :
           CompileStep(Synchronized(d), Tail(loops))

\* declaration() and statement() at '{': begin_scope, and block() is
\* entered.
ScopeBegin ==
    /\ AtDeclaration
    /\ check(parser, "LeftBrace")
    /\ CompileStep(begin_scope(advance(parser)), <<[kind |-> "block"]>> \o loops)

\* The end of block(), end_scope, and the end of declaration().
ScopeEnd ==
    /\ AtDeclaration /\ loops # <<>>
    /\ check(parser, "RightBrace") \/ check(parser, "EOF")
    /\ \E q \in {end_scope(consume(parser, "RightBrace", "Expected '}' after block."))} :
           CompileStep(Synchronized(q), Tail(loops))

\* Parser::compile after its loop: end_compile, then Err or Ok.
VariablesEnd ==
    /\ AtDeclaration /\ loops = <<>>
    /\ check(parser, "EOF")
    /\ \E e \in {end_compile(matches(parser, "EOF"))} :
           /\ parser' = e
           /\ functions' = e.functions
           /\ diagnostics' = e.diagnostics
           /\ result' = IF e.panic # "" THEN "panic"
                         ELSE IF e.had_error THEN "compile_error" ELSE "ok"
    /\ UNCHANGED <<prog, loops, vmVars, otherUnitVars>>

VariableNext ==
    \/ VarDeclare \/ VarInitialize \/ VarDefine
    \/ ScopeBegin \/ ScopeEnd
    \/ VariablesEnd

VariableSpec == VariableInit /\ [][VariableNext]_vars

(***************************************************************************)
(* Scopes with captured locals (src/src/compile.rs): blocks of             *)
(* declarations  var NAME;  and  fun f() { NAME; } , followed one          *)
(* declaration and one end of a block at a time.                           *)
(***************************************************************************)
\* The longest program, in items.
MaxScopeItems == 5

ScopeItems ==
    {[kind |-> "{"], [kind |-> "}"]}
    \cup {[kind |-> "var", name |-> n, initializer |-> ""] : n \in VariableNames}
    \cup {[kind |-> "fun", name |-> IF n = "a" THEN "f" ELSE "g", captures |-> n] :
              n \in VariableNames}

ScopeInputs ==
    {Input("Scopes", items) :
         items \in {s \in UNION {[1..n -> ScopeItems] : n \in 1..MaxScopeItems} :
                       Nested(s)}}

ScopeInit ==
    /\ prog \in ScopeInputs
    /\ parser = ParserNew(OneLine(ItemsTokens(prog.k)))
    /\ loops = <<>>
    /\ result = "init"
    /\ functions = <<>>
    /\ diagnostics = <<>>
    /\ frames = <<>>
    /\ stack = <<>>
    /\ globals = <<>>
    /\ open_upvalues = <<>>
    /\ cells = <<>>
    /\ method_rcs = <<>>
    /\ classes = <<>>
    /\ instances = <<>>
    /\ bound_methods = <<>>
    /\ print_output = <<>>
    /\ error_output = <<>>
    /\ gen = <<>>
    /\ gen_next = 0
    /\ builder = <<>>
    /\ patches = <<>>
    /\ units = <<>>
    /\ table = <<>>
    /\ symbols = <<>>
    /\ scanner = <<>>
    /\ scanned = <<>>

\* One declaration() at var or fun.
ScopeDeclare ==
    /\ AtDeclaration
    /\ check(parser, "Var") \/ check(parser, "Fun")
    /\ \E q \in {Method("declaration", parser, 0)} : CompileStep(q, loops)

ScopeNext == ScopeBegin \/ ScopeDeclare \/ ScopeEnd \/ VariablesEnd

ScopeSpec == ScopeInit /\ [][ScopeNext]_vars

(***************************************************************************)
(* Nested functions (src/src/compile.rs): a block and the functions        *)
(* declared one inside the other, each with its own variables, and reads   *)
(* of names in the innermost function:                                     *)
(*     { DECLS fun f1() { DECLS fun f2() { DECLS READS } } }               *)
(* function_declaration() and function() are followed in two steps, the    *)
(* part in front of the body and the part behind it, so that the compilers *)
(* of the enclosing functions are seen while the body is compiled.         *)
(***************************************************************************)
\* The most functions one inside the other, and the most reads.
MaxDepth == 3

MaxReads == 2

DeclChoices == {<<>>, <<"a">>, <<"b">>, <<"a", "b">>}

NestInputs ==
    {Input("Nest", [decls |-> d, reads |-> r]) :
         d \in UNION {[1..(n + 1) -> DeclChoices] : n \in 1..MaxDepth},
         r \in UNION {[1..n -> VariableNames] : n \in 1..MaxReads}}

RECURSIVE DeclTokens(_)
DeclTokens(names) ==
    IF names = <<>> THEN <<>>
    ELSE <<K("Var"), Id(Head(names)), K("Semicolon")>> \o DeclTokens(Tail(names))

\* The block, then the functions from the outermost on, each up to its
\* declarations.
RECURSIVE NestOpen(_, _)
NestOpen(decls, l) ==
    IF l > Len(decls) THEN <<>>
    ELSE (IF l = 1 THEN <<K("LeftBrace")>>
          ELSE <<K("Fun"), Id(ClosureName(l - 1)), K("LeftParen"), K("RightParen"),
                 K("LeftBrace")>>)
         \o DeclTokens(decls[l]) \o NestOpen(decls, l + 1)

NestProgram(input) ==
    OneLine(NestOpen(input.decls, 1) \o ReadTokens(input.reads)
            \o [i \in 1..Len(input.decls) |-> K("RightBrace")])

NestInit ==
    /\ prog \in NestInputs
    /\ parser = ParserNew(NestProgram(prog.k))
    /\ loops = <<>>
    /\ result = "init"
    /\ functions = <<>>
    /\ diagnostics = <<>>
    /\ frames = <<>>
    /\ stack = <<>>
    /\ globals = <<>>
    /\ open_upvalues = <<>>
    /\ cells = <<>>
    /\ method_rcs = <<>>
    /\ classes = <<>>
    /\ instances = <<>>
    /\ bound_methods = <<>>
    /\ print_output = <<>>
    /\ error_output = <<>>
    /\ gen = <<>>
    /\ gen_next = 0
    /\ builder = <<>>
    /\ patches = <<>>
    /\ units = <<>>
    /\ table = <<>>
    /\ symbols = <<>>
    /\ scanner = <<>>
    /\ scanned = <<>>

NestCompiling == result = "init" /\ parser.panic = ""

\* statement() at the { of the program: begin_scope, and block() is entered.
NestBlockBegin ==
    /\ NestCompiling /\ loops = <<>>
    /\ check(parser, "LeftBrace")
    /\ CompileStep(begin_scope(advance(parser)), <<[kind |-> "scope"]>>)

\* One pass of the loop of block() at a var declaration.
NestVar ==
    /\ NestCompiling /\ loops # <<>>
    /\ check(parser, "Var")
    /\ \E q \in {Method("declaration", parser, 0)} : CompileStep(q, loops)

\* One pass of the loop of block() at an expression statement  NAME;
NestRead ==
    /\ NestCompiling /\ loops # <<>>
    /\ check(parser, "Identifier")
    /\ \E q \in {Method("declaration", parser, 0)} : CompileStep(q, loops)

\* declaration() at fun, function_declaration() and function() up to the
\* loop of block().
NestFunctionBegin ==
    /\ NestCompiling /\ loops # <<>>
    /\ check(parser, "Fun")
    /\ \E v \in {parse_variable(advance(parser), "Expected function name.")} :
       \E c \in {consume(begin_scope(
                       [v EXCEPT !.compilers =
                            Append(SetCurC(v, mark_local_initialized(CurC(v))).compilers,
                                   NamedCompiler("Function", v.previous.lexeme))]),
                          "LeftParen", "Expected '(' after function name.")} :
       \E q \in {IF ~check(c, "RightParen") THEN ParameterLoop(c) ELSE c} :
           CompileStep(consume(consume(q, "RightParen", "Expected ')' after parameters."),
                               "LeftBrace", "Expected '{' before function body."),
                       <<[kind |-> "function", global |-> v.ret]>> \o loops)

\* The end of block() in a function, the rest of function(), of
\* function_declaration() and of declaration().
NestFunctionEnd ==
    /\ NestCompiling
    /\ IF loops = <<>> THEN FALSE ELSE Head(loops).kind = "function"
    /\ check(parser, "RightBrace")
    /\ \E b \in {consume(parser, "RightBrace", "Expected '}' after block.")} :
       \E e \in {end_compile(b)} :
       \E c \in {make_constant(emit_opcode(e, "Closure"), FunctionV(e.ret))} :
       \E r \in {EmitUpvalues(emit_index(c, c.ret), CurC(b).upvalues, 1)} :
           CompileStep(Synchronized(define_variable(r, Head(loops).global)), Tail(loops))

\* The end of block() at the } of the program, and end_scope.
NestBlockEnd ==
    /\ NestCompiling
    /\ IF loops = <<>> THEN FALSE ELSE Head(loops).kind = "scope"
    /\ check(parser, "RightBrace")
    /\ \E q \in {end_scope(consume(parser, "RightBrace", "Expected '}' after block."))} :
           CompileStep(Synchronized(q), Tail(loops))

NestNext ==
    \/ NestBlockBegin \/ NestVar \/ NestRead
    \/ NestFunctionBegin \/ NestFunctionEnd
    \/ NestBlockEnd \/ VariablesEnd

NestSpec == NestInit /\ [][NestNext]_vars

(***************************************************************************)
(* The scanner (src/src/scanner.rs).  A text is a sequence of characters,  *)
(* each a string of length one; start and current count the characters in  *)
(* front of them, as the indexes of the source do.  A lexeme is the        *)
(* sequence of the characters of the slice; the lexeme of an Error token   *)
(* is its message, kept as one unit.  The end-of-file type is spelled Eof  *)
(* in scanner.rs and EOF in tokens.rs.  What next() returns is <<>> for    *)
(* None and <<token>> for Some(token).                                     *)
(***************************************************************************)
UNEXPECTED_CHAR == "Unexpected character."

UNTERMINATED_STRING == "Unterminated string."

\* What peek_next() returns at the end of the source: '\0'.
NUL == "NUL"

ScannerImplNew(source) ==
    [source |-> source, start |-> 0, current |-> 0, line |-> 1, returned_eof |-> FALSE]

is_at_end(s) == s.current = Len(s.source)

peek(s) == s.source[s.current + 1]

peek_next(s) == IF s.current + 1 < Len(s.source) THEN s.source[s.current + 2] ELSE NUL

\* advance(): the character is that of peek() before the call.
ScannerAdvance(s) == [s EXCEPT !.current = s.current + 1]

\* matches(expected): ret tells whether the character was consumed.
ScannerMatches(s, expected) ==
    IF is_at_end(s) \/ peek(s) # expected
    THEN [s |-> s, ret |-> FALSE]
    ELSE [s |-> ScannerAdvance(s), ret |-> TRUE]

\* char::is_alphabetic on the letters of ASCII, and '_'.
is_alpha(c) ==
    \/ c \in {"a", "b", "c", "d", "e", "f", "g", "h", "i", "j", "k", "l", "m", "n",
              "o", "p", "q", "r", "s", "t", "u", "v", "w", "x", "y", "z"}
    \/ c \in {"A", "B", "C", "D", "E", "F", "G", "H", "I", "J", "K", "L", "M", "N",
              "O", "P", "Q", "R", "S", "T", "U", "V", "W", "X", "Y", "Z"}
    \/ c = "_"

is_ascii_digit(c) == \E i \in DOMAIN Digits : Digits[i] = c

make_token(s, token_type) ==
    Token(token_type, SubSeq(s.source, s.start + 1, s.current), s.line)

error_token(s, message) == Token("Error", <<message>>, s.line)

\* The loop of a comment: to the end of the line.
RECURSIVE SkipComment(_)
SkipComment(s) ==
    IF ~is_at_end(s) /\ peek(s) # "\n"
    THEN CHOOSE r \in {SkipComment(a) : a \in {ScannerAdvance(s)}} : TRUE
    ELSE s

RECURSIVE skip_whitespace(_)
skip_whitespace(s) ==
    IF is_at_end(s) THEN s
    ELSE CASE peek(s) \in {" ", "\r", "\t"} ->
                  CHOOSE r \in {skip_whitespace(a) : a \in {ScannerAdvance(s)}} : TRUE
           [] peek(s) = "\n" ->
                  CHOOSE r \in {skip_whitespace(a) :
                                a \in {[s EXCEPT !.line = s.line + 1,
                                                 !.current = s.current + 1]}} : TRUE
           [] peek(s) = "/" ->
                  IF peek_next(s) = "/"
                  THEN CHOOSE r \in {skip_whitespace(a) : a \in {SkipComment(s)}} : TRUE
                  ELSE s
           [] OTHER -> s

check_keyword(s, start, rest, token_type) ==
    IF SubSeq(s.source, s.start + start + 1, s.current) = rest
    THEN token_type
    ELSE "Identifier"

identifier_type(s) ==
    LET first == s.source[s.start + 1]
        second == s.source[s.start + 2]
    IN CASE first = "a" -> check_keyword(s, 1, <<"n", "d">>, "And")
         [] first = "c" -> check_keyword(s, 1, <<"l", "a", "s", "s">>, "Class")
         [] first = "e" -> check_keyword(s, 1, <<"l", "s", "e">>, "Else")
         [] first = "f" ->
                IF s.current - s.start > 1
                THEN CASE second = "a" -> check_keyword(s, 2, <<"l", "s", "e">>, "False")
                       [] second = "o" -> check_keyword(s, 2, <<"r">>, "For")
                       [] second = "u" -> check_keyword(s, 2, <<"n">>, "Fun")
                       [] OTHER -> "Identifier"
                ELSE "Identifier"
         [] first = "i" -> check_keyword(s, 1, <<"f">>, "If")
         [] first = "n" -> check_keyword(s, 1, <<"i", "l">>, "Nil")
         [] first = "o" -> check_keyword(s, 1, <<"r">>, "Or")
         [] first = "p" -> check_keyword(s, 1, <<"r", "i", "n", "t">>, "Print")
         [] first = "r" -> check_keyword(s, 1, <<"e", "t", "u", "r", "n">>, "Return")
         [] first = "s" -> check_keyword(s, 1, <<"u", "p", "e", "r">>, "Super")
         [] first = "t" ->
                IF s.current - s.start > 1
                THEN CASE second = "h" -> check_keyword(s, 2, <<"i", "s">>, "This")
                       [] second = "r" -> check_keyword(s, 2, <<"u", "e">>, "True")
                       [] OTHER -> "Identifier"
                ELSE "Identifier"
         [] first = "v" -> check_keyword(s, 1, <<"a", "r">>, "Var")
         [] first = "w" -> check_keyword(s, 1, <<"h", "i", "l", "e">>, "While")
         [] OTHER -> "Identifier"

\* The loops of identifier() and number(): ret is the token.
RECURSIVE IdentifierLoop(_)
IdentifierLoop(s) ==
    IF ~is_at_end(s) /\ (is_alpha(peek(s)) \/ is_ascii_digit(peek(s)))
    THEN CHOOSE r \in {IdentifierLoop(a) : a \in {ScannerAdvance(s)}} : TRUE
    ELSE s

identifier(s) ==
    CHOOSE r \in {[s |-> e, ret |-> make_token(e, identifier_type(e))] :
                  e \in {IdentifierLoop(s)}} : TRUE

RECURSIVE DigitLoop(_)
DigitLoop(s) ==
    IF ~is_at_end(s) /\ is_ascii_digit(peek(s))
    THEN CHOOSE r \in {DigitLoop(a) : a \in {ScannerAdvance(s)}} : TRUE
    ELSE s

ScannerNumber(s) ==
    LET Point(whole) ==
            IF ~is_at_end(whole) /\ peek(whole) = "." /\ is_ascii_digit(peek_next(whole))
            THEN ScannerAdvance(whole)
            ELSE whole
    IN CHOOSE r \in {[s |-> e, ret |-> make_token(e, "Number")] :
                     e \in {DigitLoop(point) :
                            point \in {Point(whole) : whole \in {DigitLoop(s)}}}} : TRUE

RECURSIVE StringLoop(_)
StringLoop(s) ==
    IF ~is_at_end(s) /\ peek(s) # "\""
    THEN CHOOSE r \in {StringLoop(a) :
                       a \in {ScannerAdvance(IF peek(s) = "\n"
                                             THEN [s EXCEPT !.line = s.line + 1]
                                             ELSE s)}} : TRUE
    ELSE s

ScannerString(s) ==
    LET Closed(e) ==
            IF is_at_end(e)
            THEN [s |-> e, ret |-> error_token(e, UNTERMINATED_STRING)]
            ELSE [s |-> ScannerAdvance(e), ret |-> make_token(ScannerAdvance(e), "String")]
    IN CHOOSE r \in {Closed(e) : e \in {StringLoop(s)}} : TRUE

\* The tokens of one character, and of one character or two with '='.
SingleCharacter ==
    [c \in {"(", ")", "{", "}", ";", ",", ".", "-", "+", "/", "*"} |->
        CASE c = "(" -> "LeftParen" [] c = ")" -> "RightParen"
          [] c = "{" -> "LeftBrace" [] c = "}" -> "RightBrace"
          [] c = ";" -> "Semicolon" [] c = "," -> "Comma"
          [] c = "." -> "Dot" [] c = "-" -> "Minus"
          [] c = "+" -> "Plus" [] c = "/" -> "Slash"
          [] c = "*" -> "Star"]

WithEqual ==
    [c \in {"!", "=", "<", ">"} |->
        CASE c = "!" -> <<"BangEqual", "Bang">>
          [] c = "=" -> <<"EqualEqual", "Equal">>
          [] c = "<" -> <<"LessEqual", "Less">>
          [] c = ">" -> <<"GreaterEqual", "Greater">>]

\* scan_token as it would be if it did not record that the end-of-file
\* token is returned.
scan_token_without_flag(scanner0) ==
    LET Some(r) == [s |-> r.s, ret |-> <<r.ret>>]
        Matched(m, c) ==
            [s |-> m.s, ret |-> <<make_token(m.s, WithEqual[c][IF m.ret THEN 1 ELSE 2])>>]
        Character(c, a) ==
            IF is_alpha(c) THEN Some(identifier(a))
            ELSE IF is_ascii_digit(c) THEN Some(ScannerNumber(a))
            ELSE CASE c \in DOMAIN SingleCharacter ->
                          [s |-> a, ret |-> <<make_token(a, SingleCharacter[c])>>]
                   [] c \in DOMAIN WithEqual ->
                          CHOOSE r \in {Matched(m, c) : m \in {ScannerMatches(a, "=")}}
                              : TRUE
                   [] c = "\"" -> Some(ScannerString(a))
                   [] OTHER -> [s |-> a, ret |-> <<error_token(a, UNEXPECTED_CHAR)>>]
        Scan(s) ==
            IF is_at_end(s)
            THEN IF s.returned_eof
                 THEN [s |-> s, ret |-> <<>>]
                 ELSE [s |-> s, ret |-> <<make_token(s, "EOF")>>]
            ELSE CHOOSE r \in {Character(peek(s), a) : a \in {ScannerAdvance(s)}} : TRUE
    IN CHOOSE r \in {Scan(s) : s \in {[w EXCEPT !.start = w.current] :
                                        w \in {skip_whitespace(scanner0)}}} : TRUE

\* scan_token, and so Iterator::next: s is the scanner after the call and
\* ret what the call returns.
scan_token(scanner0) ==
    LET Some(r) == [s |-> r.s, ret |-> <<r.ret>>]
        Matched(m, c) ==
            [s |-> m.s, ret |-> <<make_token(m.s, WithEqual[c][IF m.ret THEN 1 ELSE 2])>>]
        Character(c, a) ==
            IF is_alpha(c) THEN Some(identifier(a))
            ELSE IF is_ascii_digit(c) THEN Some(ScannerNumber(a))
            ELSE CASE c \in DOMAIN SingleCharacter ->
                          [s |-> a, ret |-> <<make_token(a, SingleCharacter[c])>>]
                   [] c \in DOMAIN WithEqual ->
                          CHOOSE r \in {Matched(m, c) : m \in {ScannerMatches(a, "=")}}
                              : TRUE
                   [] c = "\"" -> Some(ScannerString(a))
                   [] OTHER -> [s |-> a, ret |-> <<error_token(a, UNEXPECTED_CHAR)>>]
        Scan(s) ==
            IF is_at_end(s)
            THEN IF s.returned_eof
                 THEN [s |-> s, ret |-> <<>>]
                 ELSE [s |-> [s EXCEPT !.returned_eof = TRUE],
                       ret |-> <<make_token(s, "EOF")>>]
            ELSE CHOOSE r \in {Character(peek(s), a) : a \in {ScannerAdvance(s)}} : TRUE
    IN CHOOSE r \in {Scan(s) : s \in {[w EXCEPT !.start = w.current] :
                                        w \in {skip_whitespace(scanner0)}}} : TRUE

\* The longest text.
MaxText == 4

\* The calls of next() that are followed after the one that returned the
\* end-of-file token.
MaxNone == 2

\* A letter of a keyword and one of none, a digit, the point of a number,
\* the quotation mark, white space with and without a new line, the start
\* of a comment, a character that begins two tokens, and one that begins
\* none.
ScannerAlphabet == {"i", "f", "1", ".", "\"", "\n", " ", "/", "=", "@"}

ScannerInputs ==
    {Input("Scanner", text) : text \in UNION {[1..n -> ScannerAlphabet] : n \in 0..MaxText}}

\* Scanner::new(source).parse() on a text.
ScannerInit ==
    /\ prog \in ScannerInputs
    /\ scanner = ScannerImplNew(prog.k)
    /\ scanned = <<>>
    /\ parser = <<>>
    /\ loops = <<>>
    /\ result = "init"
    /\ functions = <<>>
    /\ diagnostics = <<>>
    /\ frames = <<>>
    /\ stack = <<>>
    /\ globals = <<>>
    /\ open_upvalues = <<>>
    /\ cells = <<>>
    /\ method_rcs = <<>>
    /\ classes = <<>>
    /\ instances = <<>>
    /\ bound_methods = <<>>
    /\ print_output = <<>>
    /\ error_output = <<>>
    /\ gen = <<>>
    /\ gen_next = 0
    /\ builder = <<>>
    /\ patches = <<>>
    /\ units = <<>>
    /\ table = <<>>
    /\ symbols = <<>>

scannerUnchanged ==
    UNCHANGED <<parser, loops, functions, diagnostics, vmVars,
                builder, patches, units, table, symbols>>

\* The calls that returned None.
Nones == {i \in DOMAIN scanned : scanned[i] = <<>>}

\* Iterator::next on the scanner.
IteratorNext ==
    /\ Cardinality(Nones) < MaxNone
    /\ \E r \in {scan_token(scanner)} :
           /\ scanner' = r.s
           /\ scanned' = Append(scanned, r.ret)
    /\ UNCHANGED <<prog, result>>
    /\ scannerUnchanged

ScannerNext == IteratorNext

ScannerSpec == ScannerInit /\ [][ScannerNext]_vars

\* The consumer of the iterator, Parser::advance or collect(), calls next()
\* again after every token.
ScannerLive == ScannerSpec /\ WF_vars(ScannerNext)

(***************************************************************************)
(* A jump from emit_jump and patch_jump, or from emit_loop, to the VM      *)
(* (src/src/compile.rs, src/src/vm.rs): the unit of JumpSpec is compiled   *)
(* to its end and run up to its jump.  The body of a loop is as many Nil   *)
(* as the input says; the run of a loop is taken up where the body has     *)
(* been executed, the run of a forward jump at its start.                  *)
(***************************************************************************)
\* The condition of a JumpIfFalse: nil.  Without it the top of the stack is
\* the closure of the script.
ConditionEmit ==
    /\ result = "init" /\ loops = <<>> /\ prog.id = "JumpIfFalse"
    /\ current_chunk(parser).code = <<>>
    /\ JumpUnitStep(emit_opcode(parser, "Nil"), <<>>, "init")

\* Where the run is taken up, and the values the instructions in front of
\* it have pushed.
StartIp == IF prog.id = "Loop" THEN prog.k ELSE 0

StartValues == IF prog.id = "Loop" THEN [i \in 1..prog.k |-> NilV] ELSE <<>>

\* The end of Parser::compile and VM::interpret: the frame of the script.
JumpLoad ==
    /\ result = "ok"
    /\ \E e \in {end_compile(parser)} :
           /\ parser' = e
           /\ functions' = e.functions
           /\ frames' = << [closure |-> ClosureV(e.ret, <<>>), ip |-> StartIp,
                           slots |-> 0] >>
           /\ SetStack(<<>>, 0, << ClosureV(e.ret, <<>>) >> \o StartValues)
    /\ globals' = ("clock" :> NativeV(0))
    /\ result' = "running"
    /\ UNCHANGED <<prog, loops, diagnostics, upvalueVars, objectVars, print_output,
                   error_output, otherUnitVars>>

\* The instruction of the jump, counted from the start of the code.
JumpAt == IF prog.id = "Loop" THEN prog.k ELSE loops[1].patch - 1

\* VM::run up to the jump and over it.
JumpRun ==
    /\ result = "running"
    /\ IF prog.id = "Loop" THEN Frame.ip = JumpAt ELSE Frame.ip <= JumpAt
    /\ OpNil \/ OpJump \/ OpJumpIfFalse \/ OpLoop

TargetNext ==
    \/ ConditionEmit
    \/ JumpEmit \/ LoopStart \/ JumpBody \/ JumpPatch \/ LoopEmit
    \/ JumpLoad
    \/ JumpRun

TargetSpec == JumpInit /\ [][TargetNext]_vars

(***************************************************************************)
(* Panic mode.  Parser::compile is followed one declaration at a time on   *)
(* every short stream of the tokens below, and synchronize one pass of its *)
(* loop at a time.  No token of them opens a block, a function or a class, *)
(* so that no declaration holds another.                                   *)
(***************************************************************************)
\* The most tokens of a stream, the EOF at its end apart.
MaxPanicTokens == 4

PanicTokens ==
    {ErrorToken, Id("a"), Num("1"), K("Var"), K("Print"), K("Equal"), K("Semicolon")}

PanicInputs ==
    {Input("Panic", tokens) :
         tokens \in UNION {[1..n -> PanicTokens] : n \in 0..MaxPanicTokens}}

PanicInit ==
    /\ prog \in PanicInputs
    /\ parser = ParserNew(OneLine(prog.k))
    /\ loops = <<>>
    /\ functions = <<>>
    /\ diagnostics = <<>>
    /\ frames = <<>>
    /\ stack = <<>>
    /\ globals = <<>>
    /\ open_upvalues = <<>>
    /\ cells = <<>>
    /\ method_rcs = <<>>
    /\ classes = <<>>
    /\ instances = <<>>
    /\ bound_methods = <<>>
    /\ print_output = <<>>
    /\ error_output = <<>>
    /\ result = "init"
    /\ gen = <<>>
    /\ gen_next = 0
    /\ builder = <<>>
    /\ patches = <<>>
    /\ units = <<>>
    /\ table = <<>>
    /\ symbols = <<>>
    /\ scanner = <<>>
    /\ scanned = <<>>

\* declaration() up to its test of panic_mode, where the declaration is
\* neither a class nor a function.  loops keeps where the declaration began
\* and how many diagnostics had been reported by then.
DeclarationBody ==
    /\ Compiling /\ loops = <<>>
    /\ ~check(parser, "EOF")
    /\ ~check(parser, "Class") /\ ~check(parser, "Fun")
    /\ \E q \in {CASE check(parser, "Var") -> var_declaration(advance(parser))
                   [] OTHER -> Method("statement", parser, 0)} :
           CompileStep(q, <<[kind |-> "declaration", pos |-> parser.pos,
                             reported |-> Len(parser.diagnostics)]>>)

\* The test of panic_mode: synchronize() is entered and clears the flag, or
\* the declaration is over.
DeclarationEnd ==
    /\ Compiling /\ loops # <<>> /\ loops[1].kind = "declaration"
    /\ IF parser.panic_mode
       THEN CompileStep([parser EXCEPT !.panic_mode = FALSE],
                        <<[loops[1] EXCEPT !.kind = "synchronize"]>>)
       ELSE CompileStep(Iterated(loops[1], parser), <<>>)

\* Where the loop of synchronize() returns.
AtBoundary(p) ==
    \/ check(p, "EOF")
    \/ p.previous.type = "Semicolon"
    \/ p.current.type \in SyncTokens

\* One pass of the loop of synchronize(), or its return and with it the end
\* of the declaration.
SynchronizeStep ==
    /\ Compiling /\ loops # <<>> /\ loops[1].kind = "synchronize"
    /\ IF AtBoundary(parser)
       THEN CompileStep(Iterated(loops[1], parser), <<>>)
       ELSE CompileStep(advance(parser), loops)

PanicNext ==
    \/ DeclarationBody \/ DeclarationEnd \/ SynchronizeStep
    \/ CompileEnd

PanicSpec == PanicInit /\ [][PanicNext]_vars

(***************************************************************************)
(* The nesting of the compiler.  Parser::compile is followed on the token  *)
(* streams that vary the well formed ones, with the blocks and the         *)
(* functions that a declaration opens one pass of the loop of block() at a *)
(* time: loops holds, innermost first, the blocks ("scope") and the        *)
(* function bodies ("function") that are open, each with the position the  *)
(* declaration began at, a function with the constant of its name.         *)
(***************************************************************************)
BalanceInputs == UNION {MutatedInputs(b) : b \in 1..Len(BasePrograms)}

BalanceInit ==
    /\ prog \in BalanceInputs
    /\ parser = [ParserNew(CompileSource(prog))
                     EXCEPT !.overflow_checks = prog.overflow_checks]
    /\ loops = <<>>
    /\ functions = <<>>
    /\ diagnostics = <<>>
    /\ frames = <<>>
    /\ stack = <<>>
    /\ globals = <<>>
    /\ open_upvalues = <<>>
    /\ cells = <<>>
    /\ method_rcs = <<>>
    /\ classes = <<>>
    /\ instances = <<>>
    /\ bound_methods = <<>>
    /\ print_output = <<>>
    /\ error_output = <<>>
    /\ result = "init"
    /\ gen = <<>>
    /\ gen_next = 0
    /\ builder = <<>>
    /\ patches = <<>>
    /\ units = <<>>
    /\ table = <<>>
    /\ symbols = <<>>
    /\ scanner = <<>>
    /\ scanned = <<>>

\* The loop of Parser::compile, or of the innermost block(), goes on.
LoopContinues ==
    /\ ~check(parser, "EOF")
    /\ loops # <<>> => ~check(parser, "RightBrace")

\* One pass of the loop at a declaration that is neither a function nor a
\* block.
BalanceDeclaration ==
    /\ Compiling /\ LoopContinues
    /\ ~check(parser, "Fun") /\ ~check(parser, "LeftBrace")
    /\ \E q \in {Method("declaration", parser, 0)} :
           CompileStep(Iterated(parser, q), loops)

\* statement() at '{': begin_scope, and block() is entered.
BalanceBlockBegin ==
    /\ Compiling /\ LoopContinues
    /\ check(parser, "LeftBrace")
    /\ CompileStep(begin_scope(advance(parser)),
                   <<[kind |-> "scope", pos |-> parser.pos]>> \o loops)

\* declaration() at fun, function_declaration() and function() up to the
\* loop of block().
BalanceFunctionBegin ==
    /\ Compiling /\ LoopContinues
    /\ check(parser, "Fun")
    /\ \E v \in {parse_variable(advance(parser), "Expected function name.")} :
       \E c \in {consume(begin_scope(
                       [v EXCEPT !.compilers =
                            Append(SetCurC(v, mark_local_initialized(CurC(v))).compilers,
                                   NamedCompiler("Function", v.previous.lexeme))]),
                          "LeftParen", "Expected '(' after function name.")} :
       \E q \in {IF ~check(c, "RightParen") THEN ParameterLoop(c) ELSE c} :
           CompileStep(consume(consume(q, "RightParen", "Expected ')' after parameters."),
                               "LeftBrace", "Expected '{' before function body."),
                       <<[kind |-> "function", pos |-> parser.pos, global |-> v.ret]>>
                       \o loops)

\* The end of block(), end_scope, and the end of declaration().
BalanceBlockEnd ==
    /\ Compiling /\ ~LoopContinues
    /\ IF loops = <<>> THEN FALSE ELSE Head(loops).kind = "scope"
    /\ \E q \in {end_scope(consume(parser, "RightBrace", "Expected '}' after block."))} :
           CompileStep(Iterated(Head(loops), Synchronized(q)), Tail(loops))

\* The end of block() in a function, the rest of function(), of
\* function_declaration() and of declaration().
BalanceFunctionEnd ==
    /\ Compiling /\ ~LoopContinues
    /\ IF loops = <<>> THEN FALSE ELSE Head(loops).kind = "function"
    /\ \E b \in {consume(parser, "RightBrace", "Expected '}' after block.")} :
       \E e \in {end_compile(b)} :
       \E c \in {make_constant(emit_opcode(e, "Closure"), FunctionV(e.ret))} :
       \E r \in {EmitUpvalues(emit_index(c, c.ret), CurC(b).upvalues, 1)} :
           CompileStep(Iterated(Head(loops),
                                Synchronized(define_variable(r, Head(loops).global))),
                       Tail(loops))

BalanceNext ==
    \/ BalanceDeclaration
    \/ BalanceBlockBegin \/ BalanceBlockEnd
    \/ BalanceFunctionBegin \/ BalanceFunctionEnd
    \/ CompileEnd \/ CompileAbort

BalanceSpec == BalanceInit /\ [][BalanceNext]_vars

(***************************************************************************)
(* Properties.  An instruction is named by the state it executes in:       *)
(* Running(opcode) holds in the state before, primed variables are the     *)
(* state after.                                                            *)
(***************************************************************************)

\* The cell SetUpvalue and GetUpvalue go through: get_upvalue_at(slot) of
\* the closure of the current frame.
OperandCell == Frame.closure.up[read_index(1) + 1]

\* The stack slot GetLocal and SetLocal address.
OperandSlot == Frame.slots + read_index(1)

IsOpen(c) == cells[c].loc = "Stack"

IsClosed(c) == cells[c].loc = "Heap"

\* Every open cell is on the open list, points at a live stack slot that
\* still is the variable it captured, and is the only open cell of that slot.
OpenCellsAreSlots ==
    \A c \in 1..Len(cells) :
        IsOpen(c) =>
            /\ \E i \in 1..Len(open_upvalues) : open_upvalues[i] = c
            /\ cells[c].index < Len(stack)
            /\ gen[cells[c].index + 1] = cells[c].vid
            /\ \A d \in 1..Len(cells) :
                   IsOpen(d) /\ cells[d].index = cells[c].index => d = c

\* A write through an open cell lands in the stack slot, a write to the slot
\* is what the cell reads, reads return the slot, and nothing else changes
\* what an open cell reads.
OpenCellStep ==
    /\ Running("SetUpvalue") /\ IsOpen(OperandCell) =>
           /\ result' = "running"
           /\ cells' = cells
           /\ stack'[cells[OperandCell].index + 1] = Top
           /\ \A c \in {OperandCell} : UpvalueValue(c)' = Top
    /\ Running("SetLocal") =>
           /\ stack'[OperandSlot + 1] = Top
           /\ \A c \in 1..Len(cells) :
                  IsOpen(c) /\ cells[c].index = OperandSlot => UpvalueValue(c)' = Top
    /\ Running("GetUpvalue") /\ IsOpen(OperandCell) =>
           stack' = Append(stack, stack[cells[OperandCell].index + 1])
    /\ Running("GetLocal") =>
           /\ stack' = Append(stack, stack[OperandSlot + 1])
           /\ \A c \in 1..Len(cells) :
                  IsOpen(c) /\ cells[c].index = OperandSlot => Top' = UpvalueValue(c)
    /\ \A c \in 1..Len(cells) :
           IsOpen(c) /\ result' = "running" /\ cells'[c].loc = "Stack"
           /\ UpvalueValue(c)' # UpvalueValue(c) =>
               \/ Running("SetUpvalue") /\ OperandCell = c
               \/ Running("SetLocal") /\ OperandSlot = cells[c].index

\* What SharedProgram prints while make() runs: 5, 6, 6, 7.
SharedOpenOutput == <<"5", "6", "6", "7">>

IsPrefix(s, t) == Len(s) <= Len(t) /\ SubSeq(t, 1, Len(s)) = s

\* C1: while the frame that declared a captured local is live, the local's
\* only storage is its stack slot: what SetUpvalue writes through a capturing
\* closure, or SetLocal writes in the declaring frame, is what GetUpvalue
\* through every capturing closure and GetLocal in the declaring frame read
\* next.
C1_OpenUpvalueIsTheStackSlot ==
    /\ [](result = "running" => OpenCellsAreSlots)
    /\ [][OpenCellStep]_vars
    /\ [](prog.id = "Shared" =>
              \/ IsPrefix(print_output, SharedOpenOutput)
              \/ IsPrefix(SharedOpenOutput, print_output))

\* make() printed 7 through get() after x = x + 1 in the declaring frame,
\* and x is still open.
C1_Witness ==
    /\ prog.id = "Shared"
    /\ result = "running"
    /\ print_output = SharedOpenOutput
    /\ \E c \in 1..Len(cells) : IsOpen(c) /\ UpvalueValue(c) = DoubleV(7)

\* No variable has two cells.
OneCellPerVariable ==
    \A c, d \in 1..Len(cells) : cells[c].vid = cells[d].vid => c = d

\* The stack index close_upvalues is called with by the current instruction.
CloseFrom == IF CurrentOpcode = "Return" THEN Frame.slots ELSE Len(stack) - 1

\* Closing copies the slot into the cell; a new closure holds the cell of
\* each variable it captures, its own or the one its enclosing closure holds;
\* a closed cell is written by SetUpvalue through it and by nothing else, and
\* GetUpvalue reads what it holds.
ClosedCellStep ==
    /\ Running("Return") \/ Running("CloseUpvalue") =>
           /\ Len(cells') = Len(cells)
           /\ \A c \in 1..Len(cells) :
                  IF IsOpen(c) /\ cells[c].index >= CloseFrom
                  THEN /\ cells'[c].loc = "Heap"
                       /\ cells'[c].value = stack[cells[c].index + 1]
                       /\ \A i \in 1..Len(open_upvalues') : open_upvalues'[i] # c
                  ELSE cells'[c] = cells[c]
    /\ Running("Closure") /\ result' = "running" =>
           \A closure \in {stack'[Len(stack')]} :
               \A i \in 1..Len(closure.up) :
                   IF read_index(2 * i) # 0
                   THEN /\ cells'[closure.up[i]].loc = "Stack"
                        /\ cells'[closure.up[i]].index = Frame.slots + read_index(2 * i + 1)
                        /\ cells'[closure.up[i]].vid =
                               gen[Frame.slots + read_index(2 * i + 1) + 1]
                   ELSE closure.up[i] = Frame.closure.up[read_index(2 * i + 1) + 1]
    /\ Running("SetUpvalue") /\ IsClosed(OperandCell) =>
           /\ stack' = stack
           /\ \A c \in {OperandCell} : cells'[c].loc = "Heap" /\ UpvalueValue(c)' = Top
    /\ Running("GetUpvalue") /\ IsClosed(OperandCell) =>
           stack' = Append(stack, cells[OperandCell].value)
    /\ \A c \in 1..Len(cells) :
           IsClosed(c) /\ cells'[c] # cells[c] => Running("SetUpvalue") /\ OperandCell = c

\* What BlockProgram(k) prints: y after b(), f() after h(), z, and f() again
\* once z has taken the stack slot y had.
BlockOutput(k) ==
    <<NumberToString(k + 1), NumberToString(k + 2), "100", NumberToString(k + 2)>>

SharedOutput(k) ==
    SharedOpenOutput \o <<"7", NumberToString(k), "9", NumberToString(k)>>

\* C2: once the stack slot of a captured variable is closed, by Return of the
\* declaring frame or by CloseUpvalue, every closure that captured it refers
\* to one Closed cell holding the value the slot had: SetUpvalue through one
\* closure is read by GetUpvalue through the others, and no later push, pop
\* or write on the stack changes the cell.
C2_ClosedUpvalueIsOneSharedCell ==
    /\ []OneCellPerVariable
    /\ [][ClosedCellStep]_vars
    /\ [](prog.id = "Block" =>
              /\ IsPrefix(print_output, BlockOutput(prog.k))
              /\ result = "ok" => print_output = BlockOutput(prog.k))
    /\ [](prog.id = "Shared" /\ result = "ok" => print_output = SharedOutput(prog.k))

\* h() wrote y through b after the block closed it, f() read it through a,
\* and z was pushed where y had been.
C2_Witness ==
    /\ prog.id = "Block"
    /\ result = "running"
    /\ print_output = SubSeq(BlockOutput(prog.k), 1, 3)
    /\ \E c \in 1..Len(cells) : IsClosed(c) /\ cells[c].value = DoubleV(prog.k + 2)
    /\ Len(stack) = 1

\* The argument count and the callee of the Call instruction about to run.
CallArgCount == read_index(1)

Callee == stack[Len(stack) - CallArgCount]

\* Call on a closure pushes the frame over the callee and its arguments;
\* Return from a called frame closes the upvalues of the frame's slots, pops
\* the frame and leaves the value where the callee was.
CallReturnStep ==
    /\ Running("Call") /\ Callee.t = "Closure" =>
           IF functions[Callee.n].arity = CallArgCount
           THEN /\ result' = "running"
                /\ stack' = stack
                /\ frames' = Append(inc_ip(2),
                                    [closure |-> Callee, ip |-> 0,
                                     slots |-> Len(stack) - CallArgCount - 1])
           ELSE result' = "runtime_error"
    /\ Running("Return") /\ Len(frames) > 1 =>
           /\ result' = "running"
           /\ frames' = SubSeq(frames, 1, Len(frames) - 1)
           /\ stack' = Append(SubSeq(stack, 1, Frame.slots), Top)
           /\ \A c \in 1..Len(cells) :
                  IsOpen(c) /\ cells[c].index >= Frame.slots => cells'[c].loc = "Heap"
           /\ \A i \in 1..Len(open_upvalues') :
                  /\ cells'[open_upvalues'[i]].loc = "Stack"
                  /\ cells'[open_upvalues'[i]].index < Frame.slots

\* Every frame but the first was pushed by the call instruction its caller
\* has just passed, sits on the callee slot and that instruction's arguments,
\* and holds them on the stack until it returns.
FramesFollowCalls ==
    \A i \in 2..Len(frames) :
        LET caller == frames[i - 1]
            callee == frames[i]
            code == Chunk(caller).code
            arity == functions[callee.closure.n].arity
        IN /\ caller.ip >= 2
           /\ code[caller.ip] = arity
           /\ \/ OpName(code[caller.ip - 1]) = "Call"
              \/ caller.ip >= 3 /\ OpName(code[caller.ip - 2]) = "Invoke"
           /\ callee.slots > caller.slots
           /\ callee.slots + arity + 1 <=
                  (IF i < Len(frames) THEN frames[i + 1].slots ELSE Len(stack))

CallOutput(k) ==
    <<NumberToString(k + 2), "7", NumberToString(k + 1), NumberToString(k + 8)>>

\* C3: Call n on a closure of arity n pushes a frame with ip 0 and slot base
\* stack_len - n - 1; Return of that frame with value v closes every upvalue
\* open at or above the slot base, pops the frame, truncates the stack to the
\* slot base and pushes v, so the caller goes on after the Call with the
\* callee and its n arguments replaced by v.
C3_CallReturnDiscipline ==
    /\ [][CallReturnStep]_vars
    /\ [](result = "running" => FramesFollowCalls)
    /\ [](prog.id = "Call" =>
              /\ IsPrefix(print_output, CallOutput(prog.k))
              /\ result # "runtime_error"
              /\ result = "ok" => print_output = CallOutput(prog.k))

\* one(k) has returned the closure c from inside the block: its frame is
\* gone, the callee and the argument are replaced by c, and u is closed.
C3_Witness ==
    /\ prog.id = "Call"
    /\ result = "running"
    /\ Len(frames) = 1
    /\ Len(stack) = 2
    /\ Top.t = "Closure"
    /\ Len(Top.up) = 1
    /\ IsClosed(Top.up[1])
    /\ cells[Top.up[1]].value = DoubleV(prog.k + 1)

\* The init method of the class the Call instruction about to run calls.
CalleeInit == method_rcs[classes[Callee.n].methods[INIT]]

\* Call on a class makes a new instance of it and puts it in the callee slot;
\* init, if the class has one, is called on it with the arguments, and
\* without init there must be no arguments.  An initializer returns slot 0.
ClassCallStep ==
    /\ Running("Call") /\ Callee.t = "Class" =>
           /\ instances' = Append(instances, [clazz |-> Callee.n, fields |-> <<>>])
           /\ IF INIT \in DOMAIN classes[Callee.n].methods
              THEN IF functions[CalleeInit.n].arity = CallArgCount
                   THEN /\ result' = "running"
                        /\ stack' = [stack EXCEPT ![Len(stack) - CallArgCount] =
                                         InstanceV(Len(instances) + 1)]
                        /\ frames' = Append(inc_ip(2),
                                            [closure |-> CalleeInit, ip |-> 0,
                                             slots |-> Len(stack) - CallArgCount - 1])
                   ELSE result' = "runtime_error"
              ELSE IF CallArgCount = 0
                   THEN /\ result' = "running"
                        /\ frames' = inc_ip(2)
                        /\ stack' = [stack EXCEPT ![Len(stack)] =
                                         InstanceV(Len(instances) + 1)]
                   ELSE result' = "runtime_error"
    /\ Running("Return") /\ functions[Frame.closure.n].kind = "Initializer" =>
           /\ Top.t = "Instance"
           /\ Top = stack[Frame.slots + 1]
           /\ stack' = Append(SubSeq(stack, 1, Frame.slots), stack[Frame.slots + 1])

InitOutput(k) ==
    <<"A instance", NumberToString(k), "B instance", NumberToString(k),
      "C instance", "A instance", "8">>

\* C4: calling a class with n arguments puts a fresh instance of it in the
\* callee slot; with an init method, init runs with the n arguments and the
\* call yields that instance whether init ends in a bare return or falls off
\* its end; without one the call succeeds only for n = 0 and yields the
\* instance.
C4_ClassCallYieldsInstance ==
    /\ [][ClassCallStep]_vars
    /\ [](prog.id = "Init" =>
              /\ IsPrefix(print_output, InitOutput(prog.k))
              /\ result # "runtime_error"
              /\ result = "ok" => print_output = InitOutput(prog.k))
    /\ [](prog.id = "NoInit" /\ result \in {"ok", "runtime_error"} =>
              IF prog.k = 0
              THEN result = "ok" /\ print_output = <<"before", "C instance", "after">>
              ELSE /\ result = "runtime_error"
                   /\ print_output = <<"before">>
                   /\ error_output = <<"[line 3] in script(): "
                                        \o ArityMessage(0, prog.k)>>)
    /\ [](prog.id = "InitArity" /\ result \in {"ok", "runtime_error"} =>
              IF prog.k = 1
              THEN result = "ok" /\ print_output = <<"before", "1", "after">>
              ELSE /\ result = "runtime_error"
                   /\ print_output = <<"before">>
                   /\ error_output = <<"[line 3] in script(): "
                                        \o ArityMessage(1, prog.k)>>)

\* C() has returned from the init that ends in a bare return: the value left
\* in place of the class is the new instance of C.
C4_Witness ==
    /\ prog.id = "Init"
    /\ result = "running"
    /\ Len(frames) = 1
    /\ Len(print_output) = 4
    /\ Top.t = "Instance"
    /\ classes[instances[Top.n].clazz].name = "C"
    /\ Top.n = Len(instances)

\* The classes the Inherit instruction about to run has on the stack, and the
\* class the Method instruction has under the closure.
InheritSuper == stack[Len(stack) - 1]

InheritSub == Top

MethodClass == stack[Len(stack) - 1]

\* Inherit gives the subclass every method of the superclass, the very
\* closure the superclass has, and touches no other class; Method puts a new
\* closure under its name in the class it is compiled for, whatever was
\* there, and touches no other name and no other class; no other instruction
\* changes a method table.
MethodTableStep ==
    /\ Running("Inherit") /\ InheritSuper.t = "Class" /\ InheritSub.t = "Class" =>
           /\ Len(classes') = Len(classes)
           /\ method_rcs' = method_rcs
           /\ DOMAIN classes'[InheritSub.n].methods =
                  DOMAIN classes[InheritSuper.n].methods
                  \cup DOMAIN classes[InheritSub.n].methods
           /\ \A m \in DOMAIN classes[InheritSuper.n].methods :
                  classes'[InheritSub.n].methods[m] = classes[InheritSuper.n].methods[m]
           /\ \A t \in 1..Len(classes) : t # InheritSub.n => classes'[t] = classes[t]
    /\ Running("Method") /\ result' = "running" =>
           /\ Len(classes') = Len(classes)
           /\ DOMAIN classes'[MethodClass.n].methods =
                  DOMAIN classes[MethodClass.n].methods \cup {read_string}
           /\ classes'[MethodClass.n].methods[read_string] = Len(method_rcs) + 1
           /\ method_rcs' = Append(method_rcs, Top)
           /\ \A m \in DOMAIN classes[MethodClass.n].methods :
                  m # read_string =>
                      classes'[MethodClass.n].methods[m] = classes[MethodClass.n].methods[m]
           /\ \A t \in 1..Len(classes) : t # MethodClass.n => classes'[t] = classes[t]
    /\ \A t \in 1..Len(classes) :
           classes'[t] # classes[t] => Running("Inherit") \/ Running("Method")

\* InheritProgram once class S < T is declared: S has its own m and o and
\* the n of T; T has what it declared.
InheritTables ==
    prog.id = "Inherit" /\ "s" \in DOMAIN globals =>
        /\ DOMAIN classes[globals["T"].n].methods = {"m", "n"}
        /\ DOMAIN classes[globals["S"].n].methods = {"m", "n", "o"}
        /\ classes[globals["S"].n].methods["n"] = classes[globals["T"].n].methods["n"]
        /\ classes[globals["S"].n].methods["m"] # classes[globals["T"].n].methods["m"]
        /\ classes[globals["S"].n].methods["m"] > classes[globals["T"].n].methods["n"]
        /\ classes[globals["S"].n].methods["o"] > classes[globals["T"].n].methods["n"]

InheritOutput == <<"Sm", "Tn", "So", "Tm", "Tn", "true">>

\* C5: after class S < T { ... } has run, each name m is in S's method table
\* with S's own declaration if S declares m, else with the closure T had for
\* m at Inherit, else not at all; Inherit and S's Method instructions leave
\* T's method table as it was.
C5_InheritCopiesThenOverrides ==
    /\ [][MethodTableStep]_vars
    /\ []InheritTables
    /\ [](prog.id = "Inherit" =>
              /\ IsPrefix(print_output, InheritOutput)
              /\ result # "ok"
              /\ result = "runtime_error" =>
                     /\ print_output = InheritOutput
                     /\ error_output = <<"[line 6] in script(): "
                                          \o UndefinedProperty("o")>>)

\* s.m() ran S's own m and s.n() the n inherited from T.
C5_Witness ==
    /\ prog.id = "Inherit"
    /\ result = "running"
    /\ print_output = <<"Sm", "Tn">>
    /\ Len(classes) = 2
    /\ DOMAIN classes[2].methods = {"m", "n", "o"}

SuperOutput == <<"A", "C">>

\* C6: with m defined in A, B < A and C < B overriding m, super.m() in C's m
\* compiles without error and runs the m that C's superclass had when C was
\* declared, A's m inherited through B, on the current receiver: the program
\* is not rejected by the compiler and, run to its end, has printed A then C.
C6_SuperCallCompilesAndDispatches ==
    prog.id = "Super" =>
        /\ result # "compile_error"
        /\ diagnostics = <<>>
        /\ IsPrefix(print_output, SuperOutput)
        /\ result \in {"init", "running", "ok"}
        /\ result = "ok" => print_output = SuperOutput

\* The instance and the field the Invoke instruction about to run names.
InvokeArgCount == read_index(2)

InvokeReceiver == stack[Len(stack) - InvokeArgCount]

InvokesField ==
    /\ Running("Invoke")
    /\ InvokeReceiver.t = "Instance"
    /\ read_string \in DOMAIN instances[InvokeReceiver.n].fields

InvokedField == instances[InvokeReceiver.n].fields[read_string]

\* The frame a call of bound method b with n arguments pushes and the stack
\* it leaves: the receiver in the callee slot.
BoundCallFrame(b, n) ==
    [closure |-> method_rcs[bound_methods[b].method], ip |-> 0,
     slots |-> Len(stack) - n - 1]

BoundCallStack(b, n) == [stack EXCEPT ![Len(stack) - n] = bound_methods[b].receiver]

\* GetProperty of a method binds it to the instance it is read from; a bound
\* method never changes; calling it, by Call or by Invoke of a field that
\* holds it, puts its receiver in the callee slot under the new frame.
BoundMethodStep ==
    /\ /\ Running("GetProperty")
       /\ Top.t = "Instance"
       /\ read_string \notin DOMAIN instances[Top.n].fields
       /\ read_string \in DOMAIN classes[instances[Top.n].clazz].methods
       => /\ bound_methods' =
                 Append(bound_methods,
                        [receiver |-> Top,
                         method |-> classes[instances[Top.n].clazz].methods[read_string]])
          /\ stack' = [stack EXCEPT ![Len(stack)] = BoundMethodV(Len(bound_methods) + 1)]
    /\ \A b \in 1..Len(bound_methods) : bound_methods'[b] = bound_methods[b]
    /\ /\ Running("Call")
       /\ Callee.t = "BoundMethod"
       /\ functions[method_rcs[bound_methods[Callee.n].method].n].arity = CallArgCount
       => /\ result' = "running"
          /\ stack' = BoundCallStack(Callee.n, CallArgCount)
          /\ frames' = Append(inc_ip(2), BoundCallFrame(Callee.n, CallArgCount))
    /\ /\ InvokesField
       /\ InvokedField.t = "BoundMethod"
       /\ functions[method_rcs[bound_methods[InvokedField.n].method].n].arity
              = InvokeArgCount
       => /\ result' = "running"
          /\ stack' = BoundCallStack(InvokedField.n, InvokeArgCount)
          /\ frames' = Append(inc_ip(3), BoundCallFrame(InvokedField.n, InvokeArgCount))

\* Slot 0 of every frame that runs a method is an instance whose class has
\* that method.
ThisIsTheReceiver ==
    \A i \in 1..Len(frames) :
        functions[frames[i].closure.n].kind \in {"Method", "Initializer"} =>
            /\ stack[frames[i].slots + 1].t = "Instance"
            /\ \E m \in DOMAIN classes[instances[stack[frames[i].slots + 1].n].clazz].methods :
                   method_rcs[classes[instances[stack[frames[i].slots + 1].n].clazz]
                                  .methods[m]] = frames[i].closure

BoundOutput(k) ==
    <<"1", NumberToString(k + 1), "3", "3", NumberToString(k + 3), "<fn get>">>

\* C7: a bound method read from an instance by GetProperty keeps that
\* instance as its receiver: whenever and from wherever it is called with n
\* arguments, the callee slot stack_len - n - 1 is overwritten with the
\* receiver before the frame is pushed, so slot 0, this, in the method body
\* is the instance the method was read from.
C7_BoundMethodKeepsReceiver ==
    /\ [][BoundMethodStep]_vars
    /\ [](result = "running" => ThisIsTheReceiver)
    /\ [](prog.id = "Bound" =>
              /\ IsPrefix(print_output, BoundOutput(prog.k))
              /\ result # "runtime_error"
              /\ result = "ok" => print_output = BoundOutput(prog.k))

\* q.get(), with the field get of q holding the method bound to p, runs with
\* p in slot 0 although q was the receiver of the Invoke.
C7_Witness ==
    /\ prog.id = "Bound"
    /\ result = "running"
    /\ Len(frames) = 2
    /\ Frame.ip = 0
    /\ print_output = SubSeq(BoundOutput(prog.k), 1, 3)
    /\ functions[Frame.closure.n].name = "get"
    /\ stack[Frame.slots + 1] = globals["p"]
    /\ stack[Frame.slots + 1] # globals["q"]

\* An instruction without operand and with one operand, as bytes of a chunk.
Ins(opcode) == <<OpByte(opcode)>>

Ins1(opcode, operand) == <<OpByte(opcode), operand>>

\* The function compile() built last: the script.
ScriptFunction == functions[Len(functions)]

\* The code of ShadowProgram: a at depth 0 is the global named by constants
\* 0 and 4, the a of the outer block is slot 1, the a of the inner block is
\* slot 2, and each block pops its local.
ShadowCode ==
    Ins1("Constant", 1) \o Ins1("DefineGlobal", 0)
    \o Ins1("Constant", 2) \o Ins1("GetLocal", 1) \o Ins("Print")
    \o Ins1("Constant", 3) \o Ins1("GetLocal", 2) \o Ins("Print") \o Ins("Pop")
    \o Ins1("GetLocal", 1) \o Ins("Print") \o Ins("Pop")
    \o Ins1("GetGlobal", 4) \o Ins("Print")
    \o Ins("Nil") \o Ins("Return")

\* The code of f in ShadowFunctionProgram: the parameter a is slot 1, the a
\* of the block is slot 2.
ShadowFunctionCode ==
    Ins1("GetLocal", 1) \o Ins("Print")
    \o Ins1("Constant", 0) \o Ins1("GetLocal", 2) \o Ins("Print") \o Ins("Pop")
    \o Ins1("GetLocal", 1) \o Ins("Print")
    \o Ins("Nil") \o Ins("Return")

\* The end of the script of ShadowFunctionProgram: print a reads the global.
ShadowFunctionScriptEnd ==
    Ins1("GetGlobal", 6) \o Ins("Print") \o Ins("Nil") \o Ins("Return")

ShadowOutput == <<"2", "3", "2", "1">>

ShadowFunctionOutput(k) ==
    <<NumberToString(k), "inner", NumberToString(k), "global">>

\* C8: a name resolves to the most recently declared local of that name that
\* is still in scope, a declaration in a nested scope shadows the outer one
\* until the nested scope ends, and a name that is no local and no upvalue is
\* a global: var a=1; { var a=2; print a; { var a=3; print a; } print a; }
\* print a; prints 2, 3, 2, 1, and a parameter and a block local shadow a
\* global in the same way.
C8_LexicalResolution ==
    /\ prog.id = "Shadow" /\ result # "init" =>
           /\ result \in {"running", "ok"}
           /\ ScriptFunction.chunk.code = ShadowCode
           /\ ScriptFunction.chunk.constants[1] = StringV("a")
           /\ ScriptFunction.chunk.constants[5] = StringV("a")
           /\ IsPrefix(print_output, ShadowOutput)
           /\ result = "ok" => print_output = ShadowOutput
    /\ prog.id = "ShadowFunction" /\ result # "init" =>
           /\ result \in {"running", "ok"}
           /\ functions[1].name = "f"
           /\ functions[1].chunk.code = ShadowFunctionCode
           /\ SubSeq(ScriptFunction.chunk.code,
                     Len(ScriptFunction.chunk.code) - Len(ShadowFunctionScriptEnd) + 1,
                     Len(ScriptFunction.chunk.code)) = ShadowFunctionScriptEnd
           /\ ScriptFunction.chunk.constants[7] = StringV("a")
           /\ IsPrefix(print_output, ShadowFunctionOutput(prog.k))
           /\ result = "ok" => print_output = ShadowFunctionOutput(prog.k)

\* The inner block has ended and print a has read the a of the outer block
\* again, which is still on the stack above the script.
C8_Witness ==
    /\ prog.id = "Shadow"
    /\ result = "running"
    /\ print_output = <<"2", "3", "2">>
    /\ Len(stack) = 2
    /\ stack[2] = DoubleV(2)
    /\ globals["a"] = DoubleV(1)

\* What ForProgram(k) prints: init, cond, then body, incr, cond for each of
\* the k times cond is true, then end.
ForOutput(k) ==
    [i \in 1..(3 * k + 3) |->
        IF i = 1 THEN "init"
        ELSE IF i = 3 * k + 3 THEN "end"
        ELSE <<"cond", "body", "incr">>[((i - 2) % 3) + 1]]

\* What ForBareProgram(k) prints: 0..k-1 from the loop with a condition
\* only, k..1 from the loop without braces, 0..k-1 from the loop whose body
\* declares a local, then end.
ForBareOutput(k) ==
    [i \in 1..(3 * k + 1) |->
        IF i <= k THEN NumberToString(i - 1)
        ELSE IF i <= 2 * k THEN NumberToString(2 * k - i + 1)
        ELSE IF i <= 3 * k THEN NumberToString(i - 2 * k - 1)
        ELSE "end"]

\* The ip of the current frame after the instruction, as a function of the
\* jump taken; jumps leave the stack alone.
JumpStep ==
    /\ Running("JumpIfFalse") =>
           /\ stack' = stack
           /\ Len(frames') = Len(frames)
           /\ frames'[Len(frames)].ip =
                  IF Top.t = "Nil" \/ Top = BoolV(FALSE)
                  THEN Frame.ip + 3 + read_short
                  ELSE Frame.ip + 3
    /\ Running("Jump") =>
           /\ stack' = stack
           /\ frames'[Len(frames)].ip = Frame.ip + 3 + read_short
    /\ Running("Loop") =>
           /\ stack' = stack
           /\ frames'[Len(frames)].ip = Frame.ip + 3 - read_short
           /\ frames'[Len(frames)].ip < Frame.ip

\* C9: a for loop runs its initializer once, then its condition, and for
\* each condition that is truthy the body, then the increment, then the
\* condition again: the condition comes before every iteration, the first
\* included, the increment after every body and never before the first, and
\* the loop is left exactly when the condition is falsey.
C9_ForLoopOrder ==
    /\ [][JumpStep]_vars
    /\ [](prog.id = "For" =>
              /\ IsPrefix(print_output, ForOutput(prog.k))
              /\ result # "runtime_error"
              /\ result = "ok" => print_output = ForOutput(prog.k))
    /\ [](prog.id = "ForBare" =>
              /\ IsPrefix(print_output, ForBareOutput(prog.k))
              /\ result # "runtime_error"
              /\ result = "ok" => print_output = ForBareOutput(prog.k))

\* The loop of ForProgram(MaxIter) has run all its iterations and was left
\* by the condition that came out false.
C9_Witness ==
    /\ prog = Input("For", MaxIter)
    /\ result = "ok"
    /\ print_output = ForOutput(MaxIter)
    /\ Len(print_output) = 3 * MaxIter + 3
    /\ print_output[Len(print_output) - 1] = "cond"

\* run_program has returned: what it hands back is final.
Returned == result \in {"ok", "runtime_error", "compile_error", "panic"}

\* Print appends its line to the sink and no other instruction writes to it;
\* the instruction that raises a runtime error writes the trace to the error
\* sink and leaves the lines printed before; nothing happens after
\* run_program has returned.
PrintStep ==
    /\ ~Returned
    /\ Running("Print") =>
           /\ print_output' = Append(print_output, ValueToString(Top))
           /\ result' = "running"
    /\ print_output' # print_output => Running("Print")
    /\ result' = "runtime_error" =>
           /\ result = "running"
           /\ print_output' = print_output
           /\ Len(error_output') = Len(error_output) + Len(frames)
           /\ frames' = <<>>
           /\ stack' = <<>>

\* What ErrorProgram(k) prints before n + nil fails in f.
ErrorOutput(k) ==
    [i \in 1..(k + 2) |->
        IF i <= k THEN NumberToString(i - 1)
        ELSE IF i = k + 1 THEN "before" ELSE "in f"]

ErrorTrace ==
    <<"[line 1] in f(): Operands must be two numbers or two strings.",
      "[line 5] in script(): Operands must be two numbers or two strings.">>

ArithOutput == <<"-7", "true", "x", "false", "y", "n", "ab", "true", "<native fn>">>

\* C10: prints take effect in execution order and survive a later runtime
\* error: when an instruction raises a runtime error, the sink run_program
\* hands back holds the lines of the Print instructions executed before it,
\* in their order, and the result is the runtime error.
C10_PrintsSurviveRuntimeError ==
    /\ [][PrintStep]_vars
    /\ [](prog.id = "Error" =>
              /\ IsPrefix(print_output, ErrorOutput(prog.k))
              /\ result # "ok"
              /\ result = "runtime_error" =>
                     /\ print_output = ErrorOutput(prog.k)
                     /\ error_output = ErrorTrace)
    /\ [](prog.id = "Arith" =>
              /\ IsPrefix(print_output, ArithOutput)
              /\ result # "ok"
              /\ result = "runtime_error" =>
                     /\ print_output = ArithOutput
                     /\ error_output = <<"[line 11] in script(): Undefined variable 'h'.">>)

\* ErrorProgram(MaxIter) has failed inside f after the loop, before and in f
\* were printed: all of it is in the sink and after is not.
C10_Witness ==
    /\ prog = Input("Error", MaxIter)
    /\ result = "runtime_error"
    /\ Len(print_output) = MaxIter + 2
    /\ print_output[1] = "0"
    /\ print_output[MaxIter + 2] = "in f"
    /\ Len(error_output) = 2


(***************************************************************************)
(* C11.  A compilation that reported an error ends run_program with the    *)
(* Compile error: no VM is built, nothing runs and nothing is written.     *)
(***************************************************************************)
VMUntouched ==
    /\ frames = <<>>
    /\ stack = <<>>
    /\ globals = <<>>
    /\ open_upvalues = <<>>
    /\ cells = <<>>
    /\ classes = <<>>
    /\ instances = <<>>
    /\ print_output = <<>>
    /\ error_output = <<>>

\* The functions the compiler built hold code of the statements before and
\* after the reported error.
EmittedAroundError ==
    /\ functions # <<>>
    /\ \E i \in 1..Len(functions[Len(functions)].chunk.constants) :
           functions[Len(functions)].chunk.constants[i] = StringV("before")
    /\ \E i \in 1..Len(functions[Len(functions)].chunk.constants) :
           functions[Len(functions)].chunk.constants[i] = StringV("after")

\* C11: once the compiler has reported an error, the result is the compile
\* error and the VM state and both program sinks are as they were before
\* run_program; a compile error is returned only with a diagnostic.
C11_CompileErrorRunsNothing ==
    /\ (diagnostics # <<>> => result = "compile_error")
    /\ (result = "compile_error" => diagnostics # <<>> /\ VMUntouched)

C11_Witness ==
    /\ prog.id = "Syntax"
    /\ result = "compile_error"
    /\ Len(diagnostics) = 1
    /\ diagnostics[1].message = "Expected ')' after arguments."
    /\ EmittedAroundError


(***************************************************************************)
(* C12.  compile() on any token stream that ends with EOF.                 *)
(***************************************************************************)
Compiled == result \in {"ok", "compile_error"}

ConsumedToEof ==
    /\ check(parser, "EOF")
    /\ parser.pos = Len(parser.source) + 1

\* C12: on every token stream that ends with EOF compile() comes to its
\* end: no loop iteration leaves the stream where it was, the compiler is
\* not aborted, and when it returns the stream is consumed up to EOF and the
\* result is the error exactly if a diagnostic was reported; had_error and
\* the diagnostics are never taken back.
C12_CompileRunsToEof ==
    /\ [](~parser.stalled)
    /\ [](parser.panic = "" /\ result # "panic")
    /\ [](Compiled => ConsumedToEof /\ loops = <<>>)
    /\ [](Compiled => (result = "compile_error" <=> diagnostics # <<>>))
    /\ [][/\ parser.had_error => parser'.had_error
          /\ IsPrefix(parser.diagnostics, parser'.diagnostics)]_vars


(***************************************************************************)
(* C13.  The trace of a runtime error.                                     *)
(***************************************************************************)
\* The names a message can quote: the strings in the constant pools.
QuotedNames ==
    UNION {{functions[f].chunk.constants[i].s :
                i \in {j \in 1..Len(functions[f].chunk.constants) :
                           functions[f].chunk.constants[j].t = "String"}} :
           f \in 1..Len(functions)}

RuntimeMessages ==
    {"Operand must be a number.", "Operands must be numbers.",
     "Operands must be two numbers or two strings.",
     "Only instances have properties.", "Only instances have methods.",
     "Superclass must be a class.", "Can only call functions and classes."}
    \cup {"Expected " \o NumberToString(a) \o " arguments, but got "
          \o NumberToString(b) \o "." : a, b \in 0..(MaxArg + 1)}
    \cup {"Undefined variable '" \o n \o "'." : n \in QuotedNames}
    \cup {"Undefined property '" \o n \o "'.\n" : n \in QuotedNames}

FrameName(frame) ==
    IF functions[frame.closure.n].has_name
    THEN functions[frame.closure.n].name ELSE "script"

\* The entry of the i-th frame from the innermost.  The innermost frame is
\* in the instruction it executes; an outer frame is in its call, whose
\* last code unit is the one before its ip.
TraceEntry(i, message) ==
    "[line "
    \o NumberToString(IF i = 1
                      THEN Chunk(Frame).lines[Frame.ip + 1]
                      ELSE Chunk(frames[Len(frames) + 1 - i])
                               .lines[frames[Len(frames) + 1 - i].ip])
    \o "] in " \o FrameName(frames[Len(frames) + 1 - i]) \o "(): " \o message

RuntimeErrorStep ==
    /\ result = "running" /\ result' = "runtime_error" =>
           /\ \E message \in RuntimeMessages :
                  error_output' = error_output
                      \o [i \in 1..Len(frames) |-> TraceEntry(i, message)]
           /\ frames' = <<>>
           /\ stack' = <<>>
    /\ error_output' # error_output => result = "running" /\ result' = "runtime_error"

OperandName == Chunk(Frame).constants[Chunk(Frame).code[Frame.ip + 2] + 1].s

UndefinedVariable ==
    /\ result' = "runtime_error"
    /\ error_output' = error_output
           \o [i \in 1..Len(frames) |->
                  TraceEntry(i, "Undefined variable '" \o OperandName \o "'.")]
    /\ globals' = globals

GlobalStep ==
    /\ Running("GetGlobal") =>
           IF OperandName \in DOMAIN globals
           THEN /\ stack' = Append(stack, globals[OperandName])
                /\ globals' = globals
                /\ result' = "running"
           ELSE UndefinedVariable
    /\ Running("SetGlobal") =>
           IF OperandName \in DOMAIN globals
           THEN /\ globals' = [globals EXCEPT ![OperandName] = Top]
                /\ stack' = stack
                /\ result' = "running"
           ELSE UndefinedVariable
    /\ Running("DefineGlobal") =>
           /\ DOMAIN globals' = DOMAIN globals \cup {OperandName}
           /\ globals'[OperandName] = Top
    /\ result = "running" /\ DOMAIN globals' # DOMAIN globals => Running("DefineGlobal")

\* C14: reading or assigning a global that is not defined is the runtime
\* error "Undefined variable 'NAME'." and leaves the globals as they are;
\* assigning a defined global overwrites it and keeps the value on the
\* stack; only DefineGlobal adds a name while the program runs.
C14_UndefinedGlobals == [][GlobalStep]_vars

C14_Witness ==
    /\ prog.id = "Global"
    /\ result = "runtime_error"
    /\ DOMAIN globals = {"clock", "g"}
    /\ globals["g"] = DoubleV(2)
    /\ print_output = <<"2">>
    /\ error_output \in {<<"[line 3] in script(): Undefined variable 'u'.">>}


(***************************************************************************)
(* C15: under any sequence of calls of the chunk builder, build() returns  *)
(* a chunk only if every Patch that write_patch handed out has been        *)
(* applied; while at least one is unapplied, build() panics instead of     *)
(* returning a chunk.                                                      *)
(***************************************************************************)
BuildCalled == result = "init" /\ result' # "init" /\ builder' = builder

C15_BuildNeedsPatchesApplied ==
    /\ [](result = "built" => patches = {})
    /\ [][BuildCalled /\ patches # {} => result' = "panic"]_vars

\* build() has panicked over a patch that was handed out and not applied,
\* with every operand written.
C15_Witness ==
    /\ result = "panic"
    /\ builder.panic = ""
    /\ patches # {}
    /\ builder.required_indexes = 0

(***************************************************************************)
(* C16: every chunk build() returns is well formed: its first code unit    *)
(* is an opcode and every opcode of fixed arity is immediately followed by *)
(* exactly its declared number of operand bytes.  The builder panics when  *)
(* an operand byte is written while no operand is pending, when an opcode  *)
(* is written while an opcode of fixed arity still lacks operands, and     *)
(* when build() is called with operands pending.                           *)
(***************************************************************************)
FixedArity(opcode) == opcode \in BuilderOpcodes /\ IndexesPerOpCode(opcode) # U8Max

\* The operands written right after the opcode at i.
OperandsAfter(i) ==
    Cardinality({j \in i + 1 .. Len(units) :
                    \A k \in i + 1 .. j : units[k] = "operand"})

WellFormed ==
    /\ Len(units) = Len(builder.code)
    /\ units # <<>> => units[1] \in BuilderOpcodes
    /\ \A i \in 1..Len(units) :
           /\ units[i] \in BuilderOpcodes => builder.code[i] = OpByte(units[i])
           /\ FixedArity(units[i]) => OperandsAfter(i) = IndexesPerOpCode(units[i])

\* Where the last opcode was written; 0 in the empty chunk.
LastOpcode ==
    IF \E i \in 1..Len(units) : units[i] \in BuilderOpcodes
    THEN CHOOSE i \in 1..Len(units) :
             /\ units[i] \in BuilderOpcodes
             /\ \A j \in i + 1 .. Len(units) : units[j] = "operand"
    ELSE 0

\* The last opcode is the one with the trailer of any length.
VariableTrailer == LastOpcode # 0 /\ ~FixedArity(units[LastOpcode])

\* The operands the last opcode of fixed arity still lacks.
Lacking ==
    IF LastOpcode # 0 /\ FixedArity(units[LastOpcode])
    THEN IndexesPerOpCode(units[LastOpcode]) - (Len(units) - LastOpcode)
    ELSE 0

\* What a call may do: a call that does anything else has panicked.
BuilderCallStep ==
    LET wrote == SubSeq(units', Len(units) + 1, Len(units'))
    IN  /\ wrote # <<>> /\ wrote[1] = "operand" =>
               VariableTrailer \/ Len(wrote) <= Lacking
        /\ wrote # <<>> /\ wrote[1] # "operand" => Lacking = 0
        /\ BuildCalled /\ Lacking > 0 => result' = "panic"
        /\ result' = "init" \/ result' = "panic" \/ BuildCalled

C16_BuiltChunkWellFormed ==
    /\ [](result = "built" => WellFormed)
    /\ [][BuilderCallStep]_vars

\* A chunk has been built in which an opcode with two operands follows one
\* with one operand.
C16_Witness ==
    /\ result = "built"
    /\ units = <<"Constant", "operand", "Jump", "operand", "operand">>


(***************************************************************************)
(* C17: under any sequence of intern calls on one symbol table, two        *)
(* returned symbols that are both still alive compare equal (by identity)  *)
(* exactly when their texts are equal, and the content of a returned       *)
(* symbol is the text that was interned.                                   *)
(***************************************************************************)
C17_InternedSymbols ==
    /\ \A i, j \in DOMAIN symbols :
           SymbolEq(symbols[i], symbols[j])
               <=> SymbolDeref(table, symbols[i]) = SymbolDeref(table, symbols[j])
    /\ \A i \in DOMAIN symbols :
           /\ SymbolDeref(table, symbols[i]) = symbols[i].name
           /\ table.rcs[symbols[i].intern].strong > 0

\* Two symbols of one text are held together with one of another text,
\* interned after an allocation of that text had died.
C17_Witness ==
    /\ Len(symbols) = 3
    /\ SymbolEq(symbols[1], symbols[2])
    /\ ~SymbolEq(symbols[2], symbols[3])
    /\ \E rc \in DOMAIN table.rcs :
           /\ table.rcs[rc].strong = 0
           /\ table.rcs[rc].text = SymbolDeref(table, symbols[3])


(***************************************************************************)
(* C18: a chunk holds at most 256 constants, with the indices 0..255.      *)
(* Adding a constant whose index would exceed 255 is reported as the       *)
(* compile error "Too many constants in one chunk.", no constant with an   *)
(* index up to 255 triggers it, and in an error-free compile the operand   *)
(* byte of every constant is the index of that constant, never truncated   *)
(* to 8 bits.                                                              *)
(***************************************************************************)
ScriptConstants(p) ==
    IF p.compilers = <<>> THEN <<>>
    ELSE p.compilers[1].function_builder.builder.constants

TooManyConstants(p) ==
    {i \in DOMAIN p.diagnostics :
        p.diagnostics[i].message = "Too many constants in one chunk."}

ConstantsStep ==
    LET grown == Len(ScriptConstants(parser')) > Len(ScriptConstants(parser))
        reported == TooManyConstants(parser') # TooManyConstants(parser)
    IN  /\ grown /\ Len(ScriptConstants(parser')) - 1 > U8Max =>
               reported /\ parser'.had_error
        /\ reported =>
               grown /\ Len(ScriptConstants(parser')) - 1 > U8Max

\* The script compiled from the statements 1; 2; ... n; loads its k-th
\* constant with the operand k - 1.
ConstantOperands ==
    result = "ok" /\ prog.id = "Constants" =>
        LET chunk == functions[Len(functions)].chunk
        IN  /\ Len(chunk.constants) = prog.k
            /\ \A k \in 1..prog.k :
                   /\ chunk.code[3 * k - 2] = OpByte("Constant")
                   /\ chunk.code[3 * k - 1] = k - 1
                   /\ chunk.constants[chunk.code[3 * k - 1] + 1] = DoubleV(k)

C18_ConstantLimit ==
    /\ [](ConstantOperands)
    /\ [](Compiled /\ TooManyConstants(parser) # {} => result = "compile_error")
    /\ [][ConstantsStep]_vars

\* A script of 256 constants has compiled without an error, its last
\* constant loaded with the operand 255.
C18_Witness ==
    /\ result = "ok"
    /\ prog.id = "Constants"
    /\ prog.k = U8Max + 1
    /\ functions[Len(functions)].chunk.code[3 * prog.k - 1] = U8Max


(***************************************************************************)
(* C19: a function can hold 256 local slots, the reserved slot 0 included. *)
(* Declaring a local reports "Too many local variables in function." only  *)
(* when the function already holds 256 locals, so that the 257th local is  *)
(* the first one rejected; every accepted local has a slot index that fits *)
(* the one-byte operand of GetLocal and SetLocal.                          *)
(***************************************************************************)
TooManyLocals(p) ==
    {i \in DOMAIN p.diagnostics :
        p.diagnostics[i].message = "Too many local variables in function."}

\* The locals the function being compiled holds.
LocalCount(p) == IF p.compilers = <<>> THEN 0 ELSE Len(CurC(p).locals)

LocalsStep ==
    /\ TooManyLocals(parser') # TooManyLocals(parser) => LocalCount(parser) = U8Max + 1
    /\ LocalCount(parser') <= U8Max + 1

C19_LocalLimit == [][LocalsStep]_vars


(***************************************************************************)
(* C20: a call with exactly 255 arguments is accepted and emitted as       *)
(* Call 255.  A call with more than 255 arguments is reported as the       *)
(* compile error "Can't have more than 255 arguments."; compilation then   *)
(* continues to Eof and returns the error result: the 8-bit argument       *)
(* counter never overflows or wraps and the compiler does not abort.       *)
(***************************************************************************)
InArguments(ls) == ls # <<>> /\ ls[1].kind = "arguments"

TooManyArguments(p) ==
    \E i \in DOMAIN p.diagnostics :
        p.diagnostics[i].message = "Can't have more than 255 arguments."

\* The code of f(nil, ... nil); is GetGlobal f, n times Nil, Call n, Pop.
CallEmitted(n) ==
    LET chunk == functions[Len(functions)].chunk
    IN  /\ chunk.code[n + 3] = OpByte("Call")
        /\ chunk.code[n + 4] = n

ArgumentsCompiled ==
    prog.id = "Arguments" /\ result # "init" =>
        IF prog.k <= U8Max
        THEN result = "ok" /\ CallEmitted(prog.k)
        ELSE /\ result = "compile_error"
             /\ TooManyArguments(parser)
             /\ ConsumedToEof

ArgumentCounterStep ==
    InArguments(loops) /\ InArguments(loops') =>
        loops'[1].arg_count >= loops[1].arg_count

C20_ArgumentLimit ==
    /\ [](ArgumentsCompiled)
    /\ [](parser.panic # "attempt to add with overflow")
    /\ [][ArgumentCounterStep]_vars


(***************************************************************************)
(* C21: jump operands are unsigned 16-bit and never truncated.  patch_jump *)
(* reports "Too much code to jump over." exactly when the forward distance *)
(* exceeds 65535 and emit_loop reports "Loop body too large." exactly when *)
(* the backward offset exceeds 65535; a distance of 65535 or less is       *)
(* written unchanged as two big-endian bytes.                              *)
(***************************************************************************)
\* The distance of the jump of the input: the body for a forward jump, the
\* body and the Loop instruction for a loop.
Distance == IF prog.id = "Loop" THEN prog.k + 3 ELSE prog.k

\* The operand of the jump, which follows the body in a loop and precedes
\* it in a forward jump.
JumpOperand ==
    LET code == current_chunk(parser).code
        at == IF prog.id = "Loop" THEN Len(code) - 1 ELSE loops[1].patch + 1
    IN  <<code[at], code[at + 1]>>

JumpMessage ==
    IF prog.id = "Loop" THEN "Loop body too large." ELSE "Too much code to jump over."

C21_JumpOperands ==
    result # "init" =>
        /\ (\E i \in DOMAIN diagnostics : diagnostics[i].message = JumpMessage)
               <=> Distance > U16Max
        /\ (result = "compile_error") <=> Distance > U16Max
        /\ Distance <= U16Max =>
               /\ JumpOperand[1] \in 0..U8Max /\ JumpOperand[2] \in 0..U8Max
               /\ JumpOperand[1] * (U8Max + 1) + JumpOperand[2] = Distance

\* A forward jump over exactly 65535 bytes has been patched without an
\* error, both operand bytes 255.
C21_Witness ==
    /\ result = "ok"
    /\ prog.id = "Jump"
    /\ Distance = U16Max
    /\ JumpOperand = <<U8Max, U8Max>>


(***************************************************************************)
(* C22: in parse_precedence the assignable flag passed to the prefix and   *)
(* infix rules is true exactly when the minimum precedence is at most      *)
(* Assignment; the variable and property rules consume an '=' only when    *)
(* the flag is true; and when the flag is true and an '=' is still the     *)
(* current token after the expression, "Invalid assignment target." is     *)
(* reported, as for  a + b = c;  while  a = b = c;  and  x.f = v;  compile *)
(* without error.                                                          *)
(***************************************************************************)
Types(tokens) == [i \in DOMAIN tokens |-> tokens[i].type]

\* The grammar of the inputs: a name with properties, under unary minus,
\* in sums and differences, and as the target of an assignment.
IsProperty(s) ==
    /\ Len(s) % 2 = 1
    /\ \A i \in DOMAIN s : s[i] = IF i % 2 = 1 THEN "Identifier" ELSE "Dot"

IsUnary(s) ==
    \E k \in 0..Len(s) :
        /\ \A i \in 1..k : s[i] = "Minus"
        /\ IsProperty(SubSeq(s, k + 1, Len(s)))

RECURSIVE IsTerm(_)
IsTerm(s) ==
    \/ IsUnary(s)
    \/ \E i \in 2..(Len(s) - 1) :
           /\ s[i] \in {"Plus", "Minus"}
           /\ IsUnary(SubSeq(s, i + 1, Len(s)))
           /\ IsTerm(SubSeq(s, 1, i - 1))

RECURSIVE IsAssignment(_)
IsAssignment(s) ==
    \/ IsTerm(s)
    \/ \E i \in 2..(Len(s) - 1) :
           /\ s[i] = "Equal"
           /\ IsProperty(SubSeq(s, 1, i - 1))
           /\ IsAssignment(SubSeq(s, i + 1, Len(s)))

\* An '=' follows a sum, a difference or a negation, which no rule assigns
\* to, after nothing but targets and their '='.
AssignsToTerm(s) ==
    \E i \in 1..Len(s), j \in 1..Len(s) :
        /\ i <= j /\ s[j] = "Equal"
        /\ IsTerm(SubSeq(s, i, j - 1)) /\ ~IsProperty(SubSeq(s, i, j - 1))
        /\ i > 1 => /\ s[i - 1] = "Equal"
                    /\ IsAssignment(SubSeq(s, 1, i - 1) \o <<"Identifier">>)

InvalidTarget ==
    \E i \in DOMAIN diagnostics : diagnostics[i].message = "Invalid assignment target."

\* The tokens consumed: all before the current one.
Consumed == SubSeq(Types(parser.source), 1, parser.pos - 2)

ExpressionParsed == result # "init" /\ prog.id = "Expression"

C22_AssignableFlag ==
    ExpressionParsed =>
        LET s == Types(prog.k)
        IN  /\ result # "panic"
            /\ prog.precedence > PrecAssignment =>
                   /\ \A i \in DOMAIN Consumed \ {1} :
                          Consumed[i] = "Equal" => Consumed[i - 1] # "Identifier"
                   /\ ~InvalidTarget
            /\ prog.precedence <= PrecAssignment =>
                   /\ check(parser, "Equal") => result = "compile_error"
                   /\ (result = "ok" /\ check(parser, "Semicolon")) <=> IsAssignment(s)
                   /\ AssignsToTerm(s) <=> InvalidTarget

\* a + a = a  has been parsed as an expression and the '=' reported.
C22_Witness ==
    /\ ExpressionParsed
    /\ prog.precedence = PrecAssignment
    /\ Types(prog.k) = <<"Identifier", "Plus", "Identifier", "Equal", "Identifier">>
    /\ InvalidTarget
    /\ Len(diagnostics) = 1


(***************************************************************************)
(* C23.  return in the script, in functions and methods, and in init.      *)
(***************************************************************************)
\* The kind of the function the body of the input belongs to.
BodyKind(context) ==
    CASE context = "Script" -> "Script"
      [] context = "Initializer" -> "Initializer"
      [] context = "Method" -> "Method"
      [] OTHER -> "Function"

\* What returning without a value is compiled to.
BareReturn(kind) ==
    IF kind = "Initializer"
    THEN <<OpByte("GetLocal"), 0, OpByte("Return")>>
    ELSE <<OpByte("Nil"), OpByte("Return")>>

\* The code of a body whose first constant gets the index n, falling off
\* the end included.
RECURSIVE BodyCode(_, _, _)
BodyCode(kind, body, n) ==
    IF body = <<>> THEN BareReturn(kind)
    ELSE CASE Head(body) = "bare" -> BareReturn(kind) \o BodyCode(kind, Tail(body), n)
           [] Head(body) = "value" ->
                  <<OpByte("Constant"), n, OpByte("Return")>>
                  \o BodyCode(kind, Tail(body), n + 1)
           [] Head(body) = "print" ->
                  <<OpByte("Constant"), n, OpByte("Print")>>
                  \o BodyCode(kind, Tail(body), n + 1)

\* The messages the statements of a body are reported with, in order.
RECURSIVE BodyMessages(_, _)
BodyMessages(kind, body) ==
    IF body = <<>> THEN <<>>
    ELSE (CASE kind = "Script" /\ Head(body) # "print" ->
                   <<"Can't return from top-level code.">>
            [] kind = "Initializer" /\ Head(body) = "value" ->
                   <<"Cannot return a value from an initializer.">>
            [] OTHER -> <<>>)
         \o BodyMessages(kind, Tail(body))

ReturnCompiled == prog.id = "Return" /\ result # "init"

\* C23: a return in the script is reported with "Can't return from
\* top-level code.", a return with a value in a method named init with
\* "Cannot return a value from an initializer."; no other return is
\* reported.  Returning without a value and falling off the end are compiled
\* to GetLocal 0, Return in init and to Nil, Return in every other function,
\* a function declared inside init included; a return with a value is
\* compiled to the value and Return.
C23_ReturnRules ==
    ReturnCompiled =>
        LET kind == BodyKind(prog.k.context)
        IN  /\ result # "panic"
            /\ functions[1].kind = kind
            /\ functions[1].chunk.code = BodyCode(kind, prog.k.body, 0)
            /\ [i \in 1..Len(diagnostics) |-> diagnostics[i].message]
                   = BodyMessages(kind, prog.k.body)
            /\ result = "ok" <=> BodyMessages(kind, prog.k.body) = <<>>

C23_Witness ==
    /\ ReturnCompiled
    /\ prog.k.context = "Initializer"
    /\ prog.k.body = <<"bare", "value">>
    /\ result = "compile_error"
    /\ Len(diagnostics) = 1
    /\ functions[1].chunk.code
           = <<OpByte("GetLocal"), 0, OpByte("Return"),
               OpByte("Constant"), 0, OpByte("Return"),
               OpByte("GetLocal"), 0, OpByte("Return")>>


(***************************************************************************)
(* C24.  Locals between their declaration and their definition.            *)
(***************************************************************************)
\* The items whose tokens the parser has all consumed.
ItemsDone ==
    LET n == CHOOSE n \in 0..Len(prog.k) :
                 /\ Len(ItemsTokens(SubSeq(prog.k, 1, n))) <= parser.pos - 2
                 /\ \A m \in (n + 1)..Len(prog.k) :
                        Len(ItemsTokens(SubSeq(prog.k, 1, m))) > parser.pos - 2
    IN SubSeq(prog.k, 1, n)

\* The names declared in each open block after the items, the outermost
\* block first, each block in the order of the declarations.
RECURSIVE ScopeStack(_)
ScopeStack(items) ==
    IF items = <<>> THEN <<>>
    ELSE LET front == ScopeStack(SubSeq(items, 1, Len(items) - 1))
             last == items[Len(items)]
             top == front[Len(front)]
         IN CASE last.kind = "{" -> Append(front, <<>>)
              [] last.kind = "}" -> SubSeq(front, 1, Len(front) - 1)
              [] front = <<>> -> front
              [] \E i \in DOMAIN top : top[i] = last.name -> front
              [] OTHER -> [front EXCEPT ![Len(front)] = Append(top, last.name)]

Redeclared(scopes, item) ==
    /\ scopes # <<>>
    /\ \E i \in DOMAIN scopes[Len(scopes)] : scopes[Len(scopes)][i] = item.name

ReadsItself(scopes, item) ==
    scopes # <<>> /\ ~Redeclared(scopes, item) /\ item.initializer = item.name

\* The message the declaration of an item inside the blocks is reported
\* with.
ItemMessages(scopes, item) ==
    CASE item.kind # "var" -> <<>>
      [] Redeclared(scopes, item) ->
             <<"Already declared a variable with this name in this scope.">>
      [] ReadsItself(scopes, item) ->
             <<"Can't read local variable in its own initializer.">>
      [] OTHER -> <<>>

RECURSIVE ItemsMessages(_)
ItemsMessages(items) ==
    IF items = <<>> THEN <<>>
    ELSE LET front == SubSeq(items, 1, Len(items) - 1)
         IN ItemsMessages(front) \o ItemMessages(ScopeStack(front), items[Len(items)])

\* The names and depths of the locals of the blocks.
RECURSIVE ScopeLocals(_)
ScopeLocals(scopes) ==
    IF scopes = <<>> THEN <<>>
    ELSE ScopeLocals(SubSeq(scopes, 1, Len(scopes) - 1))
         \o [i \in DOMAIN scopes[Len(scopes)] |->
                [name |-> scopes[Len(scopes)][i], depth |-> Len(scopes)]]

\* The names and depths of the locals of the compiler, without slot 0.
DeclaredLocals ==
    [i \in 1..(Len(CurC(parser).locals) - 1) |->
        [name |-> CurC(parser).locals[i + 1].name.lexeme,
         depth |-> CurC(parser).locals[i + 1].depth]]

Messages == [i \in DOMAIN parser.diagnostics |-> parser.diagnostics[i].message]

\* The blocks that are still open; at the end of the tokens the blocks
\* left open are closed one by one, each with a message.
StillOpen == SubSeq(ScopeStack(ItemsDone), 1, CurC(parser).scope_depth)

Unclosed ==
    [i \in 1..(Len(ScopeStack(ItemsDone)) - Len(StillOpen)) |->
        "Expected '}' after block."]

\* C24: a local is in the list of locals with depth -1 from its
\* declaration to the end of its initializer and gets the depth of its
\* block at its definition; the locals are those of the open blocks.  A
\* declaration inside a block whose initializer reads the declared name is
\* reported as "Can't read local variable in its own initializer.", whatever
\* the outer blocks and the globals declare; a declaration of a name its
\* block has already declared is reported as "Already declared a variable
\* with this name in this scope." and adds no local; no other declaration is
\* reported.
C24_LocalDeclaration ==
    (prog.id = "Variables" /\ result = "init") =>
        IF loops # <<>> /\ Head(loops).kind = "var"
        THEN LET item == prog.k[Len(ItemsDone) + 1]
                 fresh == StillOpen # <<>> /\ ~Redeclared(StillOpen, item)
             IN  /\ DeclaredLocals
                        = ScopeLocals(StillOpen)
                          \o (IF fresh THEN <<[name |-> item.name, depth |-> -1]>>
                              ELSE <<>>)
                 /\ Messages
                        = ItemsMessages(ItemsDone)
                          \o (IF Head(loops).initialized \/ ~fresh
                              THEN ItemMessages(StillOpen, item) ELSE <<>>)
        ELSE /\ DeclaredLocals = ScopeLocals(StillOpen)
             /\ Messages = ItemsMessages(ItemsDone) \o Unclosed

\* { var a = a; } with a global a: the read of a is reported while the
\* depth of the local is -1.
C24_Witness ==
    /\ prog.id = "Variables" /\ result = "init"
    /\ prog.k = <<[kind |-> "var", name |-> "a", initializer |-> ""], [kind |-> "{"],
                  [kind |-> "var", name |-> "a", initializer |-> "a"], [kind |-> "}"]>>
    /\ loops # <<>> /\ Head(loops).kind = "var" /\ Head(loops).initialized
    /\ DeclaredLocals = <<[name |-> "a", depth |-> -1]>>
    /\ Messages = <<"Can't read local variable in its own initializer.">>


(***************************************************************************)
(* C25.  The tokens of the scanner end with one end-of-file token.         *)
(***************************************************************************)
IsToken(item, type) == item # <<>> /\ item[1].type = type

EofReturned == \E i \in DOMAIN scanned : IsToken(scanned[i], "EOF")

\* The characters of the text that are outside every string, where the
\* text has no comment: those with an even number of quotation marks in
\* front of them.
OutsideStrings(text) ==
    {i \in DOMAIN text :
         Cardinality({j \in 1..(i - 1) : text[j] = "\""}) % 2 = 0}

ErrorTokens(message) ==
    {i \in DOMAIN scanned : IsToken(scanned[i], "Error") /\ scanned[i][1].lexeme = <<message>>}

ScannedToEnd ==
    /\ \A i \in DOMAIN scanned :
           \* None is returned after the end-of-file token only, and from
           \* then on.
           /\ scanned[i] = <<>> <=> \E j \in 1..(i - 1) : IsToken(scanned[j], "EOF")
           \* The end-of-file token is returned when nothing but white
           \* space and comments is left.
           /\ IsToken(scanned[i], "EOF") => is_at_end(scanner)
    /\ Cardinality({i \in DOMAIN scanned : IsToken(scanned[i], "EOF")}) <= 1
    /\ Cardinality({i \in DOMAIN scanned : scanned[i] # <<>>}) <= Len(prog.k) + 1
    /\ EofReturned = scanner.returned_eof
    /\ (EofReturned /\ \A i \in DOMAIN prog.k : prog.k[i] # "/") =>
           /\ Cardinality(ErrorTokens(UNEXPECTED_CHAR))
                  = Cardinality({i \in OutsideStrings(prog.k) : prog.k[i] = "@"})
           /\ Cardinality(ErrorTokens(UNTERMINATED_STRING))
                  = Cardinality({j \in DOMAIN prog.k : prog.k[j] = "\""}) % 2

\* C25: on every text the calls of next() come to the end-of-file token;
\* it is returned once, every call before it returns a token and every
\* call after it returns None, and there are at most as many tokens as
\* characters and one more.  An unexpected character and an unterminated
\* string are returned as Error tokens, one for each, and the tokens after
\* them are returned as without them.
C25_ScannerTerminates ==
    /\ [](prog.id = "Scanner" => ScannedToEnd)
    /\ <>(prog.id = "Scanner" => EofReturned /\ Cardinality(Nones) = MaxNone)

\* if@"  : a keyword, an unexpected character, an unterminated string, the
\* end-of-file token, and None from then on.
C25_Witness ==
    /\ prog.id = "Scanner"
    /\ prog.k = <<"i", "f", "@", "\"">>
    /\ Len(scanned) = 6
    /\ [i \in 1..4 |-> scanned[i][1].type] = <<"If", "Error", "Error", "EOF">>
    /\ scanned[5] = <<>> /\ scanned[6] = <<>>


(***************************************************************************)
(* C26.  The jump of the compiler is the jump of the VM.                   *)
(***************************************************************************)
\* The length of the code where patch_jump is called: the operand of the
\* jump and the body are behind its instruction.
PatchedLength == loops[1].patch + 2 + prog.k

\* Where the VM is to be after the jump.
JumpTarget ==
    CASE prog.id = "Loop" -> loops[1].loop_start
      [] prog.id = "Jump" -> PatchedLength
      [] prog.id = "JumpIfFalse" ->
             IF is_falsy(Top) THEN PatchedLength ELSE JumpAt + 3

\* An instruction of the unit starts there: all of its bytes are opcodes but
\* the two of the operand of the jump.
OnOpcode(ip) ==
    /\ ip \in 0..(Len(Chunk(Frame).code) - 1)
    /\ ip \notin {JumpAt + 1, JumpAt + 2}

AtJump == result = "running" /\ Frame.ip = JumpAt

TargetStep ==
    AtJump =>
        /\ CurrentOpcode = prog.id
        /\ frames'[1].ip = JumpTarget
        /\ OnOpcode(JumpTarget)

\* C26: patch_jump is called where the code is as long as the operand of
\* the jump and the body behind it reach.  The VM is there after Jump, and
\* after JumpIfFalse on nil; it is behind the operand after JumpIfFalse on
\* another value, and at loop_start after the Loop of emit_loop(loop_start).
\* An instruction starts wherever it is then.
C26_JumpTargets ==
    /\ []((result = "ok" /\ prog.id # "Loop") =>
              Len(current_chunk(parser).code) = PatchedLength)
    /\ [][TargetStep]_vars

\* JumpIfFalse on nil over 65535 bytes.
C26_Witness ==
    /\ prog.id = "JumpIfFalse" /\ prog.k = U16Max
    /\ result = "running"
    /\ stack[Len(stack)] = NilV
    /\ Frame.ip = U16Max + 4
    /\ CurrentOpcode = "Nil"


\* The stack index the i-th entry of the open-upvalue list points at.
OpenIndex(i) == cells[open_upvalues[i]].index

OneOpenUpvaluePerIndex ==
    \A i, j \in 1..Len(open_upvalues) : OpenIndex(i) = OpenIndex(j) => i = j

\* The stack indexes the Closure instruction about to run captures with
\* is_local set, for a function of count upvalues.
CapturedIndexes(count) ==
    {Frame.slots + read_index(2 * i + 1) : i \in {k \in 1..count : read_index(2 * k) # 0}}

OpenIndexes == {OpenIndex(i) : i \in 1..Len(open_upvalues)}

\* Closure appends one cell for each captured index that had no open upvalue,
\* after the entries the list had, and takes the listed cell for every other.
CaptureStep ==
    Running("Closure") /\ result' = "running" =>
        \A closure \in {stack'[Len(stack')]} :
            /\ Len(open_upvalues') =
                   Len(open_upvalues)
                   + Cardinality(CapturedIndexes(Len(closure.up)) \ OpenIndexes)
            /\ Len(cells') = Len(cells) + Len(open_upvalues') - Len(open_upvalues)
            /\ SubSeq(open_upvalues', 1, Len(open_upvalues)) = open_upvalues
            /\ \A i \in 1..Len(closure.up), j \in 1..Len(open_upvalues) :
                   read_index(2 * i) # 0
                   /\ OpenIndex(j) = Frame.slots + read_index(2 * i + 1) =>
                       closure.up[i] = open_upvalues[j]

\* C27: the open-upvalue list holds at most one upvalue per stack index:
\* capturing an index that already has an open upvalue yields that cell,
\* shared with the earlier closure, and appends nothing.
C27_OneOpenUpvaluePerIndex ==
    /\ []OneOpenUpvaluePerIndex
    /\ [][CaptureStep]_vars

\* Two closures of different functions on the stack hold the one open cell
\* of the list.
C27_Witness ==
    /\ result = "running"
    /\ Len(open_upvalues) = 1
    /\ \E a, b \in 1..Len(stack) :
           /\ stack[a].t = "Closure" /\ stack[b].t = "Closure"
           /\ stack[a].n # stack[b].n
           /\ Len(stack[a].up) = 1
           /\ stack[a].up = stack[b].up
           /\ stack[a].up[1] = open_upvalues[1]
           /\ IsOpen(open_upvalues[1])


\* Every entry of the open-upvalue list is an Open cell whose stack index is
\* below the length of the stack.
OpenUpvaluesLive ==
    \A i \in 1..Len(open_upvalues) :
        IsOpen(open_upvalues[i]) /\ OpenIndex(i) < Len(stack)

\* C28: after every instruction, and after a runtime error, every upvalue of
\* the open-upvalue list is Open and points below the length of the stack: no
\* slot is dropped, by Pop, CloseUpvalue, Return or the stack reset, while an
\* open upvalue points at it.
C28_OpenUpvaluesPointAtLiveSlots ==
    result \in {"running", "ok", "runtime_error"} => OpenUpvaluesLive


(***************************************************************************)
(* C29.  The instructions of a scope exit.                                 *)
(***************************************************************************)
\* The innermost block that declares the name, 0 if none does.
DeclaringBlock(scopes, name) ==
    LET blocks == {l \in 1..Len(scopes) :
                      \E i \in DOMAIN scopes[l] : scopes[l][i].name = name}
    IN IF blocks = {} THEN 0 ELSE CHOOSE l \in blocks : \A m \in blocks : m <= l

\* A declaration of the name in the innermost block, if there is a block.
WithDeclared(scopes, name) ==
    IF scopes = <<>> \/ DeclaringBlock(scopes, name) = Len(scopes) THEN scopes
    ELSE [scopes EXCEPT ![Len(scopes)] =
              Append(scopes[Len(scopes)], [name |-> name, captured |-> FALSE])]

\* A function of the innermost block reads the name.
WithCaptured(scopes, name) ==
    IF DeclaringBlock(scopes, name) = 0 THEN scopes
    ELSE [scopes EXCEPT ![DeclaringBlock(scopes, name)] =
              [i \in DOMAIN @ |->
                  IF @[i].name = name THEN [@[i] EXCEPT !.captured = TRUE] ELSE @[i]]]

\* The variables each open block declares after the items, the outermost
\* block first, each block in the order of the declarations, and whether a
\* function read the variable from inside.
RECURSIVE CapturedScopes(_)
CapturedScopes(items) ==
    IF items = <<>> THEN <<>>
    ELSE LET front == CapturedScopes(SubSeq(items, 1, Len(items) - 1))
             last == items[Len(items)]
         IN CASE last.kind = "{" -> Append(front, <<>>)
              [] last.kind = "}" -> SubSeq(front, 1, Len(front) - 1)
              [] last.kind = "var" -> WithDeclared(front, last.name)
              [] OTHER -> WithCaptured(WithDeclared(front, last.name), last.captures)

\* The block the compiler is in, as the items declare it.
ScopeLeft ==
    CapturedScopes(ItemsDone)[CurC(parser).scope_depth]

\* The locals the scopes hold, slot 0 aside.
RECURSIVE ScopesLocals(_)
ScopesLocals(scopes) ==
    IF scopes = <<>> THEN <<>>
    ELSE ScopesLocals(SubSeq(scopes, 1, Len(scopes) - 1))
         \o [i \in DOMAIN scopes[Len(scopes)] |->
                [name |-> scopes[Len(scopes)][i].name, depth |-> Len(scopes),
                 is_captured |-> scopes[Len(scopes)][i].captured]]

\* The names, depths and flags of the locals of a compiler, without slot 0.
LocalsOf(c) ==
    [i \in 1..(Len(c.locals) - 1) |->
        [name |-> c.locals[i + 1].name.lexeme, depth |-> c.locals[i + 1].depth,
         is_captured |-> c.locals[i + 1].is_captured]]

\* The instruction of the i-th local removed from a scope of n variables.
ExitOpcode(scope, i) ==
    OpByte(IF scope[Len(scope) + 1 - i].captured THEN "CloseUpvalue" ELSE "Pop")

\* The end of a block in a program compiled without error so far.
LeavingScope ==
    /\ prog.id = "Scopes" /\ result = "init"
    /\ loops # <<>> /\ loops' = Tail(loops)
    /\ parser.diagnostics = <<>>

ScopeExitStep ==
    LeavingScope =>
        /\ LocalsOf(CurC(parser))
               = ScopesLocals(SubSeq(CapturedScopes(ItemsDone), 1,
                                     CurC(parser).scope_depth))
        /\ LocalsOf(CurC(parser'))
               = ScopesLocals(SubSeq(CapturedScopes(ItemsDone), 1,
                                     CurC(parser).scope_depth - 1))
        /\ CurC(parser').locals
               = SubSeq(CurC(parser).locals, 1,
                        Len(CurC(parser).locals) - Len(ScopeLeft))
        /\ current_chunk(parser').code
               = current_chunk(parser).code
                 \o [i \in 1..Len(ScopeLeft) |-> ExitOpcode(ScopeLeft, i)]

\* C29: at scope exit the compiler removes exactly the locals declared in
\* the scope it leaves, last declared first, and emits one instruction for
\* each in that order, CloseUpvalue if an inner function captured the local
\* and Pop otherwise; the locals of the enclosing scopes stay, and nothing
\* is emitted for them.
C29_ScopeExit == [][ScopeExitStep]_vars

\* { var a; var b; fun f() { a; } } after its }: f and b were popped, then
\* a was closed.
C29_Witness ==
    /\ prog.id = "Scopes" /\ result = "init"
    /\ prog.k = <<[kind |-> "{"], [kind |-> "var", name |-> "a", initializer |-> ""],
                  [kind |-> "var", name |-> "b", initializer |-> ""],
                  [kind |-> "fun", name |-> "f", captures |-> "a"], [kind |-> "}"]>>
    /\ parser.current.type = "EOF"
    /\ parser.diagnostics = <<>>
    /\ CurC(parser).scope_depth = 0
    /\ LocalsOf(CurC(parser)) = <<>>
    /\ SubSeq(current_chunk(parser).code, Len(current_chunk(parser).code) - 2,
              Len(current_chunk(parser).code))
           = <<OpByte("Pop"), OpByte("Pop"), OpByte("CloseUpvalue")>>


(***************************************************************************)
(* C30.  The operand pairs of Closure.                                     *)
(***************************************************************************)
\* The names a sequence of reads captures, each once, in the order of their
\* first reads.
RECURSIVE Distinct(_)
Distinct(reads) ==
    IF reads = <<>> THEN <<>>
    ELSE LET front == Distinct(SubSeq(reads, 1, Len(reads) - 1))
         IN IF \E i \in DOMAIN front : front[i] = reads[Len(reads)] THEN front
            ELSE Append(front, reads[Len(reads)])

\* The slot of a local of the block of the program.
BlockSlot(name) == IF name = "a" THEN 1 ELSE 2

\* The pairs (is_local, index) of the closure of an item, and of its inner
\* function.
RECURSIVE OuterPairs(_)
OuterPairs(names) ==
    IF names = <<>> THEN <<>>
    ELSE OuterPairs(SubSeq(names, 1, Len(names) - 1))
         \o <<1, BlockSlot(names[Len(names)])>>

RECURSIVE InnerPairs(_)
InnerPairs(names) ==
    IF names = <<>> THEN <<>>
    ELSE InnerPairs(SubSeq(names, 1, Len(names) - 1)) \o <<0, Len(names) - 1>>

Captures(item) == Len(Distinct(item.reads))

\* The bytes of an item in the script: Closure with its constant and pairs,
\* and GetLocal, Call and Pop if the closure is called.
ItemBytes(item) == 2 + 2 * Captures(item) + (IF item.called THEN 5 ELSE 0)

\* The offset of the Closure of the i-th item in the script, after the two
\* Nil of var a and var b.
RECURSIVE ClosureAt(_)
ClosureAt(i) == IF i = 1 THEN 2 ELSE ClosureAt(i - 1) + ItemBytes(prog.k[i - 1])

\* The function the Closure at an offset of a chunk carries.
ClosureConstant(chunk, at) == functions[chunk.constants[chunk.code[at + 2] + 1].n]

\* The opcode the script has behind the i-th item.
AfterItem(i) ==
    IF prog.k[i].called THEN "GetLocal"
    ELSE IF i < Len(prog.k) THEN "Closure" ELSE "Pop"

\* The Closure of the i-th item as the compiler built it.
ItemCompiled(i) ==
    LET item == prog.k[i]
        script == ScriptFunction.chunk
        at == ClosureAt(i)
        f == ClosureConstant(script, at)
    IN /\ script.code[at + 1] = OpByte("Closure")
       /\ script.constants[script.code[at + 2] + 1].t = "Function"
       /\ f.upvalue_count = Captures(item)
       /\ SubSeq(script.code, at + 3, at + 2 + 2 * Captures(item))
              = OuterPairs(Distinct(item.reads))
       /\ script.code[at + 3 + 2 * Captures(item)] = OpByte(AfterItem(i))
       /\ item.inner =>
              /\ f.chunk.code
                     = <<OpByte("Closure"), 0>> \o InnerPairs(Distinct(item.reads))
                       \o <<OpByte("Nil"), OpByte("Return")>>
              /\ f.chunk.constants[1].t = "Function"
              /\ ClosureConstant(f.chunk, 0).upvalue_count = Captures(item)

ClosuresCompiled ==
    (prog.id = "Closures" /\ result # "init") =>
        /\ result # "compile_error"
        /\ \A i \in 1..Len(prog.k) : ItemCompiled(i)

\* Closure in the script is on the Closure of an item, Closure in a called
\* function on that of its inner function: the closure gets as many cells
\* as the item captures, and the frame goes on at the opcode behind the
\* pairs.
ClosureStep ==
    (prog.id = "Closures" /\ Running("Closure")) =>
        /\ result' = "running"
        /\ Len(frames') = Len(frames)
        /\ \A closure \in {stack'[Len(stack')]} :
               /\ closure.t = "Closure"
               /\ Len(closure.up) = functions[closure.n].upvalue_count
               /\ IF Len(frames) = 1
                  THEN \E i \in 1..Len(prog.k) :
                           /\ Frame.ip = ClosureAt(i)
                           /\ Len(closure.up) = Captures(prog.k[i])
                           /\ frames'[1].ip = ClosureAt(i) + 2 + 2 * Captures(prog.k[i])
                           /\ CurrentOpcode' = AfterItem(i)
                  ELSE \E i \in 1..Len(prog.k) :
                           /\ prog.k[i].inner /\ prog.k[i].called
                           /\ Frame.ip = 0
                           /\ Len(closure.up) = Captures(prog.k[i])
                           /\ closure.up
                                  = SubSeq(Frame.closure.up, 1, Captures(prog.k[i]))
                           /\ frames'[2].ip = 2 + 2 * Captures(prog.k[i])
                           /\ CurrentOpcode' = "Nil"

\* C30: the upvalue_count of a function compiled without error is the
\* number of (is_local, index) pairs emitted behind its Closure instruction:
\* the VM reads upvalue_count pairs, builds a closure of upvalue_count cells
\* and leaves ip on the next opcode.
C30_UpvaluePairs ==
    /\ []ClosuresCompiled
    /\ [][ClosureStep]_vars

\* f1 reads b, a and b through its inner function and is called: the inner
\* closure took the two cells of f1, and the frame of f1 is on its Nil.
C30_Witness ==
    /\ prog.id = "Closures" /\ result = "running"
    /\ prog.k[1] = [reads |-> <<"b", "a", "b">>, inner |-> TRUE, called |-> TRUE]
    /\ Len(frames) = 2
    /\ Frame.ip = 6
    /\ CurrentOpcode = "Nil"
    /\ stack[Len(stack)].t = "Closure"
    /\ Len(stack[Len(stack)].up) = 2
    /\ stack[Len(stack)].up = Frame.closure.up
    /\ cells[Frame.closure.up[1]].index = 2
    /\ cells[Frame.closure.up[2]].index = 1


(***************************************************************************)
(* C31.  The upvalues of a name read in a nested function.                 *)
(***************************************************************************)
Declares(names, name) == \E i \in DOMAIN names : names[i] = name

\* The innermost of the block and the functions that declares the name, the
\* block being 1 and the innermost function the last; 0 if none does.
DeclaringLevel(name) ==
    LET levels == {l \in DOMAIN prog.k.decls : Declares(prog.k.decls[l], name)}
    IN IF levels = {} THEN 0 ELSE CHOOSE l \in levels : \A m \in levels : m <= l

\* The slot of a name among the locals of its level, slot 0 being reserved.
SlotIn(l, name) == CHOOSE i \in DOMAIN prog.k.decls[l] : prog.k.decls[l][i] = name

\* The 0-based place of an upvalue in a list, -1 if it is not there.
PlaceOf(upvalues, upvalue) ==
    LET hits == {i \in DOMAIN upvalues : upvalues[i] = upvalue}
    IN IF hits = {} THEN -1 ELSE (CHOOSE i \in hits : \A j \in hits : i <= j) - 1

\* The upvalue the compiler m of cs needs for the local of the given slot
\* of compiler l < m: the local itself for the function declared in l, the
\* upvalue of the enclosing function for the functions further in.
RECURSIVE UpvalueFor(_, _, _, _)
UpvalueFor(cs, m, l, slot) ==
    IF m = l + 1 THEN Upvalue(slot, TRUE)
    ELSE Upvalue(PlaceOf(cs[m - 1].upvalues, UpvalueFor(cs, m - 1, l, slot)), FALSE)

NoUpvalueTwice(c) ==
    /\ \A i, j \in DOMAIN c.upvalues : c.upvalues[i] = c.upvalues[j] => i = j
    /\ c.function_builder.upvalue_count = Len(c.upvalues)

\* A read  NAME;  is compiled in the innermost function.
ReadingName ==
    /\ prog.id = "Nest" /\ result = "init"
    /\ parser.current.type = "Identifier"
    /\ parser' # parser

ReadCode(opcode, operand) == <<OpByte(opcode), operand, OpByte("Pop")>>

UpvalueStep ==
    ReadingName =>
        LET name == parser.current.lexeme
            n == Len(prog.k.decls)
            l == DeclaringLevel(name)
            before == parser.compilers
            after == parser'.compilers
            emitted == SubSeq(after[n].function_builder.builder.code,
                              Len(before[n].function_builder.builder.code) + 1,
                              Len(after[n].function_builder.builder.code))
        IN /\ Len(before) = n /\ Len(after) = n
           /\ parser'.diagnostics = <<>>
           /\ \A m \in 1..n : NoUpvalueTwice(after[m])
           /\ IF l = n
              THEN /\ emitted = ReadCode("GetLocal", SlotIn(l, name))
                   /\ after = [before EXCEPT ![n].function_builder = after[n].function_builder]
              ELSE IF l = 0
              THEN /\ Len(emitted) = 3
                   /\ emitted = ReadCode("GetGlobal", emitted[2])
                   /\ after[n].function_builder.builder.constants[emitted[2] + 1]
                          = StringV(name)
                   /\ after = [before EXCEPT ![n].function_builder = after[n].function_builder]
                   /\ after[n].function_builder.upvalue_count
                          = before[n].function_builder.upvalue_count
              ELSE /\ \A m \in 1..l : after[m].upvalues = before[m].upvalues
                   /\ \A m \in (l + 1)..n :
                          \A u \in {UpvalueFor(after, m, l, SlotIn(l, name))} :
                              /\ u.index >= 0
                              /\ after[m].upvalues
                                     = IF PlaceOf(before[m].upvalues, u) # -1
                                       THEN before[m].upvalues
                                       ELSE Append(before[m].upvalues, u)
                   /\ \A m \in 1..n :
                          after[m].locals
                              = IF m = l
                                THEN [before[m].locals EXCEPT
                                         ![SlotIn(l, name) + 1].is_captured = TRUE]
                                ELSE before[m].locals
                   /\ before[l].locals[SlotIn(l, name) + 1].name.lexeme = name
                   /\ emitted
                          = ReadCode("GetUpvalue",
                                     PlaceOf(after[n].upvalues,
                                             UpvalueFor(after, n, l, SlotIn(l, name))))

\* The reads the innermost function has compiled: one instruction of three
\* bytes each, behind the Nil of its declarations.
ReadsDone ==
    (Len(parser.compilers[Len(prog.k.decls)].function_builder.builder.code)
         - Len(prog.k.decls[Len(prog.k.decls)])) \div 3

ReadOpcode(i) ==
    OpName(parser.compilers[Len(prog.k.decls)].function_builder.builder
               .code[Len(prog.k.decls[Len(prog.k.decls)]) + 3 * i - 2])

ReadOperand(i) ==
    parser.compilers[Len(prog.k.decls)].function_builder.builder
        .code[Len(prog.k.decls[Len(prog.k.decls)]) + 3 * i - 1]

\* Two reads of one name through an upvalue have one upvalue index; two
\* upvalues of two names have two indexes.
SameVariableSameIndex ==
    (prog.id = "Nest" /\ result = "init" /\ Len(parser.compilers) = Len(prog.k.decls)) =>
        \A i, j \in 1..ReadsDone :
            /\ prog.k.reads[i] = prog.k.reads[j] =>
                   /\ ReadOpcode(i) = ReadOpcode(j)
                   /\ ReadOpcode(i) = "GetUpvalue" => ReadOperand(i) = ReadOperand(j)
            /\ (ReadOpcode(i) = "GetUpvalue" /\ ReadOpcode(j) = "GetUpvalue"
                    /\ ReadOperand(i) = ReadOperand(j)) =>
                   prog.k.reads[i] = prog.k.reads[j]

\* C31: a name read in function F that is a local of the function directly
\* enclosing F marks that local captured and gives F the upvalue (slot,
\* is_local = true); a name that the enclosing function reaches as its
\* upvalue u gives F (u, is_local = false), every function between the
\* declaring one and F getting its entry; an equal (index, is_local) pair is
\* reused, so that one variable has one upvalue index in a function; a name
\* no enclosing function declares is not found and read as a global.
C31_UpvalueResolution ==
    /\ [][UpvalueStep]_vars
    /\ []SameVariableSameIndex

\* f3 has read b, declared by the block, and then a, declared by f1: f2 and
\* f3 hold both variables, f1 only b.
C31_Witness ==
    /\ prog.id = "Nest" /\ result = "init"
    /\ prog.k = [decls |-> << <<"b">>, <<"a">>, <<>>, <<>> >>, reads |-> <<"b", "a">>]
    /\ Len(parser.compilers) = 4
    /\ parser.compilers[2].upvalues = <<Upvalue(1, TRUE)>>
    /\ parser.compilers[3].upvalues = <<Upvalue(0, FALSE), Upvalue(1, TRUE)>>
    /\ parser.compilers[4].upvalues = <<Upvalue(0, FALSE), Upvalue(1, FALSE)>>
    /\ parser.compilers[1].locals[2].is_captured
    /\ parser.compilers[2].locals[2].is_captured
    /\ ReadsDone = 2
    /\ ReadOperand(1) = 0 /\ ReadOperand(2) = 1


(***************************************************************************)
(* C32.  Invoke, and GetProperty followed by Call.                         *)
(***************************************************************************)
\* The instruction that calls the property: the Invoke of  x.m(ARGS) , and
\* the Call of  (x.m)(ARGS) , the one Call of the script behind the two
\* calls of A.
CallingProperty ==
    /\ prog.id = "Invoke"
    /\ \/ Running("Invoke")
       \/ /\ prog.k.variant = "property"
          /\ Running("Call") /\ Len(frames) = 1 /\ Len(instances) = 2

PropertyArgs == IF CurrentOpcode = "Invoke" THEN read_index(2) ELSE read_index(1)

\* The bytes of the instruction.
PropertyBytes == IF CurrentOpcode = "Invoke" THEN 3 ELSE 2

\* x, the receiver, and what it and its class hold.
Receiver == InstanceV(1)

ReceiverFields == instances[1].fields

ReceiverMethods == classes[instances[1].clazz].methods

\* The value GetProperty leaves for the property: the field, or else the
\* method bound to the receiver.
IsPropertyValue(value, name) ==
    IF name \in DOMAIN ReceiverFields THEN value = ReceiverFields[name]
    ELSE /\ name \in DOMAIN ReceiverMethods
         /\ value.t = "BoundMethod"
         /\ bound_methods[value.n]
                = [receiver |-> Receiver, method |-> ReceiverMethods[name]]

\* The call is on line 7 of the program.
ScriptTrace(message) == "[line 7] in script(): " \o message

PropertyError(message) ==
    /\ result' = "runtime_error"
    /\ stack' = <<>>
    /\ frames' = <<>>
    /\ error_output' = Append(error_output, ScriptTrace(message))

\* The closure is called with the value in the slot of the callee.
PropertyFrame(closure, slot_value, n) ==
    IF n = functions[closure.n].arity
    THEN /\ result' = "running"
         /\ frames' = <<[frames[1] EXCEPT !.ip = frames[1].ip + PropertyBytes],
                        [closure |-> closure, ip |-> 0, slots |-> Len(stack) - n - 1]>>
         /\ stack' = [stack EXCEPT ![Len(stack) - n] = slot_value]
         /\ error_output' = error_output
    ELSE PropertyError(ArityMessage(functions[closure.n].arity, n))

\* What the call of the property does: a field shadows a method, and a
\* method runs with the receiver in the slot of the callee.
PropertyCalled(name, n) ==
    IF name \in DOMAIN ReceiverFields
    THEN LET value == ReceiverFields[name]
         IN CASE value.t = "Closure" -> PropertyFrame(value, value, n)
              [] value.t = "BoundMethod" ->
                     PropertyFrame(method_rcs[bound_methods[value.n].method],
                                   bound_methods[value.n].receiver, n)
              [] value.t = "Class" ->
                     IF n = 0
                     THEN /\ result' = "running"
                          /\ frames' = <<[frames[1] EXCEPT
                                             !.ip = frames[1].ip + PropertyBytes]>>
                          /\ stack' = [stack EXCEPT ![Len(stack)] = InstanceV(3)]
                          /\ instances'[3].clazz = value.n
                          /\ error_output' = error_output
                     ELSE PropertyError(ArityMessage(0, n))
              [] OTHER -> PropertyError("Can only call functions and classes.")
    ELSE IF name \in DOMAIN ReceiverMethods
    THEN PropertyFrame(method_rcs[ReceiverMethods[name]], Receiver, n)
    ELSE PropertyError(UndefinedProperty(name))

PropertyStep ==
    CallingProperty =>
        /\ PropertyArgs = prog.k.args
        /\ IF CurrentOpcode = "Invoke"
           THEN stack[Len(stack) - PropertyArgs] = Receiver
           ELSE IsPropertyValue(stack[Len(stack) - PropertyArgs],
                                InvokedName(prog.k.scenario))
        /\ PropertyCalled(InvokedName(prog.k.scenario), PropertyArgs)

\* What the program prints, and the message it ends with, whichever way the
\* call is written.
InvokeArity(scenario) == IF scenario = "class" THEN 0 ELSE 1

InvokeMessage(input) ==
    CASE input.scenario = "number" -> "Can only call functions and classes."
      [] input.scenario = "undefined" -> UndefinedProperty("n")
      [] input.args # InvokeArity(input.scenario) ->
             ArityMessage(InvokeArity(input.scenario), input.args)
      [] OTHER -> ""

InvokePrinted(scenario) ==
    CASE scenario = "method" -> <<"x", "1", "after">>
      [] scenario = "closure" -> <<"g", "1", "after">>
      [] scenario = "bound" -> <<"y", "1", "after">>
      [] OTHER -> <<"after">>

InvokeOutcome ==
    prog.id = "Invoke" =>
        /\ result \notin {"compile_error", "panic"}
        /\ result = "ok" =>
               /\ InvokeMessage(prog.k) = ""
               /\ print_output = InvokePrinted(prog.k.scenario)
               /\ error_output = <<>>
        /\ result = "runtime_error" =>
               /\ InvokeMessage(prog.k) # ""
               /\ print_output = <<>>
               /\ error_output = <<ScriptTrace(InvokeMessage(prog.k))>>

\* C32: Invoke is a shortcut: where the value n below the top is an
\* instance, Invoke c n gives the value stack, the frame stack and the
\* outcome that GetProperty c on that receiver followed by Call n gives; on
\* both ways a field named c shadows a method named c, and a method runs
\* with the receiver in local slot 0.
C32_InvokeIsGetPropertyThenCall ==
    /\ [][PropertyStep]_vars
    /\ []InvokeOutcome

\* x.m = g; x.m(1); by Invoke: g runs in a frame of its own with g, not x,
\* in slot 0, although the class of x has a method m.
C32_Witness ==
    /\ prog.id = "Invoke" /\ result = "running"
    /\ prog.k = [scenario |-> "closure", variant |-> "invoke", args |-> 1]
    /\ Len(frames) = 2
    /\ Frame.ip = 0
    /\ functions[Frame.closure.n].name = "g"
    /\ stack[Frame.slots + 1] = Frame.closure
    /\ "m" \in DOMAIN ReceiverMethods
    /\ OpName(Chunk(frames[1]).code[frames[1].ip - 2]) = "Invoke"


(***************************************************************************)
(* C33.  Panic mode.                                                       *)
(***************************************************************************)
Reported(p) == Len(p.diagnostics)

InSynchronize == loops # <<>> /\ loops[1].kind = "synchronize"

\* A step of the compiler under panic mode: a diagnostic is reported only
\* out of panic mode and not by synchronize; synchronize returns at a
\* boundary, out of panic mode; and the declaration that ends has reported
\* one diagnostic at most.
PanicStep ==
    /\ Reported(parser') <= Reported(parser) + 1
    /\ Reported(parser') > Reported(parser) => ~parser.panic_mode /\ ~InSynchronize
    /\ InSynchronize /\ loops' = loops =>
           ~AtBoundary(parser) /\ parser'.previous = parser.current
    /\ InSynchronize /\ loops' = <<>> => AtBoundary(parser') /\ ~parser'.panic_mode
    /\ loops # <<>> /\ loops' = <<>> =>
           Reported(parser') <= loops[1].reported + 1

\* C33: after a compile diagnostic has been reported, no further
\* diagnostic is reported until synchronize has run; synchronize runs only
\* at the end of a declaration, clears panic mode and skips tokens until
\* the previous token is ; or the current token is Eof or one of class,
\* fun, var, for, if, while, print, return; hence a declaration reports one
\* diagnostic at most.
C33_PanicModeSuppression == [][PanicStep]_vars


(***************************************************************************)
(* C34.  The stack under control flow.                                     *)
(***************************************************************************)
\* Every statement of the program is on a line of its own: a statement
\* begins where the line of the code changes.
AtStatement ==
    /\ result = "running" /\ Len(frames) = 1
    /\ Frame.ip = 0 \/ Chunk(Frame).lines[Frame.ip + 1] # Chunk(Frame).lines[Frame.ip]

\* The only JumpIfFalse of the program is the one of the statement.
ConditionOnly == prog.k.form \notin {"logic", "ifand", "ifor"}

FlowValue(c) ==
    CASE c = "true" -> BoolV(TRUE)
      [] c = "false" -> BoolV(FALSE)
      [] c = "nil" -> NilV
      [] c = "zero" -> DoubleV(0)

\* The value of  c and d and ... : the first operand that is falsy, or
\* else the last.
AndValue(operands, i, j) ==
    IF \E k \in i..j : is_falsy(FlowValue(operands[k]))
    THEN FlowValue(operands[CHOOSE k \in i..j :
                                /\ is_falsy(FlowValue(operands[k]))
                                /\ \A l \in i..(k - 1) : ~is_falsy(FlowValue(operands[l]))])
    ELSE FlowValue(operands[j])

\* and binds more than or: the chain is an or of chains of and, and its
\* value the first of their values that is not falsy, or else the last.
RECURSIVE ChainValue(_, _, _)
ChainValue(operands, operators, i) ==
    LET n == Len(operands)
        j == IF \E k \in i..(n - 1) : operators[k] = "or"
             THEN CHOOSE k \in i..(n - 1) :
                      /\ operators[k] = "or"
                      /\ \A l \in i..(k - 1) : operators[l] = "and"
             ELSE n
    IN IF j = n \/ ~is_falsy(AndValue(operands, i, j))
       THEN AndValue(operands, i, j)
       ELSE ChainValue(operands, operators, j + 1)

\* Print is about to print the value of the chain.
PrintingChain ==
    /\ prog.id = "Flow" /\ prog.k.form = "logic"
    /\ Running("Print") /\ Chunk(Frame).lines[Frame.ip + 1] = 1

FlowStep ==
    prog.id = "Flow" =>
        /\ Running("JumpIfFalse") =>
               /\ stack' = stack
               /\ ConditionOnly => Running("Pop")'

FlowBalanced ==
    prog.id = "Flow" =>
        /\ result \in {"init", "running", "ok"}
        /\ AtStatement => Len(stack) = 1
        /\ PrintingChain =>
               /\ Len(stack) = 2
               /\ Top = ChainValue(prog.k.operands, prog.k.operators, 1)

\* C34: JumpIfFalse never pops; in the code of if and else, while and for
\* every evaluation of the condition is popped once on the path that is
\* taken and on the one that is not, so that the stack is as high after
\* the statement as before it; and and or leave one value, the left
\* operand where it decides, else the right one.
C34_ControlFlowBalanced == [][FlowStep]_vars /\ []FlowBalanced

\* The second pass of  while (v) { print v; v = w; w = nil; }  is over:
\* the condition was popped three times and the stack holds the script
\* alone at the end of the statement.
C34_Witness ==
    /\ prog.id = "Flow" /\ prog.k.form = "while"
    /\ AtStatement /\ Chunk(Frame).lines[Frame.ip + 1] = 4
    /\ Len(print_output) = 2
    /\ Len(stack) = 1


(***************************************************************************)
(* C35.  The constant pool.                                                *)
(***************************************************************************)
\* C35: add_constant deduplicates by value equality: a value equal to one
\* in the pool gets the index of that one and leaves the pool as it is, so
\* that the pool holds every value once.
C35_ConstantsDeduplicated ==
    \A i, j \in DOMAIN builder.constants :
        builder.constants[i] = builder.constants[j] => i = j


(***************************************************************************)
(* C36.  The arity check of a call.                                        *)
(***************************************************************************)
Expected(arity, n) ==
    "Expected " \o NatToString(arity) \o " arguments, but got " \o NatToString(n) \o "."

\* The trace of an error in the call of x: x is called on line 5, by the
\* script or by run, which the script calls on line 6.
CallTrace(message) ==
    IF Len(frames) = 1
    THEN <<"[line 5] in script(): " \o message>>
    ELSE <<"[line 5] in run(): " \o message, "[line 6] in script(): " \o message>>

\* The call ends in a runtime error: no frame was pushed, the trace has a
\* line for each frame there was, and nothing was pushed on the stack.
CallRefused(message) ==
    /\ result' = "runtime_error"
    /\ frames' = <<>>
    /\ stack' = <<>>
    /\ error_output' = error_output \o CallTrace(message)
    /\ print_output' = print_output

CallPushed(closure, n) ==
    /\ result' = "running"
    /\ Len(frames') = Len(frames) + 1
    /\ frames'[Len(frames')] = [closure |-> closure, ip |-> 0,
                                slots |-> Len(stack) - n - 1]
    /\ stack' = stack
    /\ error_output' = error_output

\* The callee and its arguments are replaced by the value.
CallReplaced(n, value) ==
    /\ result' = "running"
    /\ Len(frames') = Len(frames)
    /\ stack' = SubSeq(stack, 1, Len(stack) - n - 1) \o <<value>>
    /\ error_output' = error_output

CallChecked ==
    prog.id = "Callee" /\ Running("Call") =>
        CASE Callee.t = "Closure" ->
                 IF CallArgCount = functions[Callee.n].arity
                 THEN CallPushed(Callee, CallArgCount)
                 ELSE CallRefused(Expected(functions[Callee.n].arity, CallArgCount))
          [] Callee.t = "NativeFunction" ->
                 IF CallArgCount = 0
                 THEN \E now \in 0..MaxClock : CallReplaced(0, DoubleV(now))
                 ELSE CallRefused(Expected(0, CallArgCount))
          [] Callee.t = "Class" ->
                 IF CallArgCount = 0
                 THEN CallReplaced(0, InstanceV(Len(instances) + 1))
                 ELSE CallRefused(Expected(0, CallArgCount))
          [] OTHER -> CallRefused("Can only call functions and classes.")

\* The arity of the value x holds, where it can be called at all.
CalleeArity(callee) ==
    CASE callee = "f" -> 1
      [] callee \in {"g", "clock", "B"} -> 0
      [] OTHER -> -1

CalleeMessage(input) ==
    IF CalleeArity(input.callee) = -1 THEN "Can only call functions and classes."
    ELSE IF CalleeArity(input.callee) # input.args
    THEN Expected(CalleeArity(input.callee), input.args)
    ELSE ""

CalleeTrace(input) ==
    IF input.place = "script"
    THEN <<"[line 5] in script(): " \o CalleeMessage(input)>>
    ELSE <<"[line 5] in run(): " \o CalleeMessage(input),
           "[line 6] in script(): " \o CalleeMessage(input)>>

CalleePrinted(callee) ==
    CASE callee = "f" -> <<"1", "after">>
      [] callee = "g" -> <<"g", "after">>
      [] OTHER -> <<"after">>

CallOutcome ==
    prog.id = "Callee" =>
        /\ result \notin {"compile_error", "panic"}
        /\ result = "ok" =>
               /\ CalleeMessage(prog.k) = ""
               /\ print_output = CalleePrinted(prog.k.callee)
               /\ error_output = <<>>
        /\ result = "runtime_error" =>
               /\ CalleeMessage(prog.k) # ""
               /\ print_output = <<>>
               /\ error_output = CalleeTrace(prog.k)

\* C36: the arity is checked before a call takes effect: a closure or a
\* native function called with another number of arguments than its arity,
\* or a class without init called with arguments, ends in the runtime
\* error "Expected N arguments, but got M." with no frame pushed and the
\* native function not run; a call of a value that is no closure, native
\* function, class or bound method ends in "Can only call functions and
\* classes."
C36_ArityCheckedFirst == [][CallChecked]_vars /\ []CallOutcome

\* run() called f, whose arity is 1, with two arguments: the trace names
\* run and the script, and f neither ran nor has a line in the trace.
C36_Witness ==
    /\ prog.id = "Callee" /\ result = "runtime_error"
    /\ prog.k = [callee |-> "f", place |-> "function", args |-> 2]
    /\ print_output = <<>>
    /\ error_output = <<"[line 5] in run(): Expected 1 arguments, but got 2.",
                        "[line 6] in script(): Expected 1 arguments, but got 2.">>


(***************************************************************************)
(* C37.  The depth of the frames.                                          *)
(***************************************************************************)
\* C37: the stack of call frames is limited in depth: no state has more
\* frames than a fixed cap of 64 or 256, and the call made at the cap ends
\* in a runtime error and pushes no frame.
C37_FrameDepthCapped == Len(frames) <= 256


(***************************************************************************)
(* C38.  The stacks at the end of a run.                                   *)
(***************************************************************************)
\* The frame that runs is at the first byte of the code of a line, that is
\* at the beginning of a statement.
AtLine ==
    /\ prog.id = "Sequence" /\ result = "running"
    /\ Frame.ip = 0 \/ Chunk(Frame).lines[Frame.ip + 1] # Chunk(Frame).lines[Frame.ip]

CurrentLine == Chunk(Frame).lines[Frame.ip + 1]

\* The frame that runs is the one of the statements: h() where they are in
\* the body of h, else the script.
InBody ==
    IF prog.k.place = "function"
    THEN functions[Frame.closure.n].has_name /\ functions[Frame.closure.n].name = "h"
    ELSE Len(frames) = 1

\* The variables the first k statements declare.
DeclaredBy(k) == Cardinality({i \in 1..k : prog.k.kinds[i] \in DeclaringKinds})

\* The locals in scope where the statement on the line begins: in a block
\* and in a function v is in line 2 and the statements are in lines 3 to
\* n + 2, and line n + 3 ends the block or the function.
LocalsAt(line) ==
    IF prog.k.place = "script" \/ ~InBody THEN 0
    ELSE IF line <= 2 \/ line > Len(prog.k.kinds) + 3 THEN 0
    ELSE 1 + DeclaredBy(line - 3)

StatementsNeutral == AtLine => Len(stack) - Frame.slots = 1 + LocalsAt(CurrentLine)

EmptyAtSuccess ==
    prog.id = "Sequence" =>
        /\ result \in {"init", "running", "ok"}
        /\ result = "ok" =>
               /\ stack = <<>>
               /\ frames = <<>>
               /\ open_upvalues = <<>>
               /\ print_output # <<>>
               /\ print_output[Len(print_output)] = "end"

\* C38: when a program that compiled without an error has run to its end
\* without a runtime error, the value stack, the stack of call frames and
\* the list of open upvalues are empty: every statement leaves the stack
\* of its frame as high as it found it, the locals it declares apart.
C38_EmptyAtSuccess == StatementsNeutral /\ EmptyAtSuccess

\* h() { var v = 0; { var t = 1; fun u() { return t; } print u(); }
\* class D2 < A { ... } } has run and the program is over.
C38_Witness ==
    /\ prog.id = "Sequence" /\ result = "ok"
    /\ prog.k = [place |-> "function", kinds |-> <<"capture", "subclass">>]
    /\ print_output = <<"1", "end">>
    /\ stack = <<>> /\ open_upvalues = <<>>


(***************************************************************************)
(* The nesting state of the compiler on every token stream.                *)
(***************************************************************************)
\* The scope depths the open blocks and function bodies account for, frame
\* by frame from the script frame on: a block adds one to the depth of the
\* innermost frame, a function body is a new frame at depth 1.
RECURSIVE OpenDepths(_)
OpenDepths(ls) ==
    IF ls = <<>> THEN <<0>>
    ELSE IF Head(ls).kind = "function" THEN Append(OpenDepths(Tail(ls)), 1)
    ELSE [OpenDepths(Tail(ls))
              EXCEPT ![Len(OpenDepths(Tail(ls)))] = OpenDepths(Tail(ls))[Len(OpenDepths(Tail(ls)))] + 1]

FrameDepths == [i \in 1..Len(parser.compilers) |-> parser.compilers[i].scope_depth]

FrameKinds == [i \in 1..Len(parser.compilers) |-> parser.compilers[i].function_builder.kind]

\* No end_scope left depth 0.
NeverBelowZero ==
    /\ parser.panic # "attempt to subtract with overflow"
    /\ \A i \in 1..Len(parser.compilers) : parser.compilers[i].scope_depth >= 0

\* At the start of a declaration every frame is as deep as the scopes that
\* are open in it: each end_scope has undone a begin_scope of its own frame.
ScopesMatched == Compiling => FrameDepths = OpenDepths(loops)

FramesNotEmpty ==
    result = "init" /\ parser.panic = "" =>
        /\ Len(parser.compilers) >= 1
        /\ FrameKinds[1] = "Script"
        /\ \A i \in 2..Len(parser.compilers) : FrameKinds[i] = "Function"

AtTopLevel ==
    Compiling /\ loops = <<>> =>
        /\ FrameKinds = <<"Script">>
        /\ parser.class_compilers = <<>>

====
